---- MODULE Spec2Model ----
(***************************************************************************)
(* Relay processing pipeline of loop-api: POST /api/bot/process            *)
(* (app/routes/bot.py, process_queue) run by concurrent callers against    *)
(* one PostgreSQL store (READ COMMITTED, one connection per run,           *)
(* autocommit off).                                                        *)
(***************************************************************************)
EXTENDS Integers, Sequences, FiniteSets, TLC

\* ---- bounds of the model --------------------------------------------------
MaxMsgs == 2          \* pending inbound messages of the store one run works on
MaxShared == 1        \* pending inbound messages of the store concurrent runs share
MaxLimit == 2         \* largest `limit` a caller passes
MaxRetries == 2       \* largest LLM_RETRIES setting
MaxContent == 3       \* longest model output, and largest LLM_MAX_CHARS setting
MaxMembers == 4       \* most rows of the members table of recipients.py

\* ---- constants of the program --------------------------------------------
INBOX_TO_BOT == "inbox_to_bot"
BOT_TO_USER == "bot_to_user"
NULL == 0             \* SQL NULL of a timestamp column
NONE == "none"        \* Python None / SQL NULL of an id column

Runs == {"r1", "r2"}  \* concurrent callers of the trigger
RunNo(r) == IF r = "r1" THEN 1 ELSE 2

Profiles == {"A", "B", "C", "Z"}
ProfNo(p) == CASE p = "A" -> 1 [] p = "B" -> 2 [] p = "C" -> 3 [] OTHER -> 4
BotIds == {"Z"}       \* BOT_PROFILE_IDS
ThreadIds == {"T1", "T2"}

\* ---- text ----------------------------------------------------------------
\* A text is a sequence of characters.
IsSpace(c) == c = " "

RECURSIVE LStrip(_)
LStrip(s) == IF s # <<>> /\ IsSpace(Head(s)) THEN LStrip(Tail(s)) ELSE s

RECURSIVE RStrip(_)
RStrip(s) ==
  IF s # <<>> /\ IsSpace(s[Len(s)]) THEN RStrip(SubSeq(s, 1, Len(s) - 1)) ELSE s

Strip(s) == RStrip(LStrip(s))

seal_plaintext(plaintext) == <<"cipher:">> \o Strip(plaintext)

\* What generate_reply can hand back: a text, or an exception.
GenTexts == {<<>>, <<"o", "k">>}

\* ---- store ---------------------------------------------------------------
VARIABLES
  threads,        \* threads table: thread id -> loop id
  loop_members,   \* loop_members table in heap order: [id, loop_id, profile_id]
  loop_agents,    \* loop_agents table: set of [id, loop_id, agent_profile_id]
  messages        \* committed messages table: id -> row

\* ---- one run of process_queue per element of Runs ---------------------------
VARIABLES
  pc,             \* position of each run
  args,           \* thread_id, limit, dry_run, x_user_id of the request
  humans,         \* the batch selected at line 247
  hi,             \* index of the current h in humans
  loc,            \* locals of the loop body: recipients, new_ids, ...
  item,           \* ProcessItemResult under construction
  tx,             \* the connection's transaction: open, seq, inserts, marks
  stats,          \* ProcessStats
  items           \* List[ProcessItemResult]

\* ---- one call of _chat_with_retry (app/llm.py) -------------------------------
VARIABLES
  llm             \* its settings, its locals and the provider calls it has made

\* ---- one call of resolve_recipients_for_message (app/services/recipients.py) --
VARIABLES
  rcp             \* the members table, the arguments, the locals and the result

\* ---- one call of generate_reply as process_queue makes it (routes/bot.py) -------
VARIABLES
  gen             \* the sender's rows, the snippets, the keywords and the prompt

\* ---- the runs of process (app/bot.py) and their messages table ------------------
VARIABLES
  pub             \* the table with its processed columns, and each run's locals

\* ---- row locks of SELECT ... FOR UPDATE SKIP LOCKED (routes/backup/19.10) -------
VARIABLES
  locks           \* for each run, the ids of the rows its transaction has locked

\* ---- the caller check of process_queue ------------------------------------------
VARIABLES
  auth            \* the configured bot ids and the HTTP status each run raised

\* ---- one request to routes/messages.py ------------------------------------------
VARIABLES
  api             \* the request, its position and its response

ext == <<gen, pub, locks, auth, api>>
vars == <<threads, loop_members, loop_agents, messages,
          pc, args, humans, hi, loc, item, tx, stats, items, llm, rcp, ext>>
store == <<threads, loop_members, loop_agents>>

\* now() is the start time of the current transaction; transactions of the
\* model get distinct times, all later than the inbound rows' created_at.
TxTime(r, n) == 100 * RunNo(r) + n

\* id returned by "insert ... returning id": fresh for every insert.
NewId(r, h, p) == 100 * RunNo(r) + 10 * h + ProfNo(p)

Min(a, b) == IF a < b THEN a ELSE b

\* ---- initial store ----------------------------------------------------------
HumanMembers ==
  << [id |-> "mA", loop_id |-> "L1", profile_id |-> "A"],
     [id |-> "mB", loop_id |-> "L1", profile_id |-> "B"],
     [id |-> "mC", loop_id |-> "L1", profile_id |-> "C"] >>
BotMemberRow == [id |-> "mZ", loop_id |-> "L1", profile_id |-> "Z"]

AuthorOf(k) == IF k % 2 = 1 THEN "mA" ELSE "mB"
ProfileOfAuthor(m) == CASE m = "mA" -> "A" [] m = "mB" -> "B" [] OTHER -> "C"

InboundRow(k, th, am, ca) ==
  [id |-> k, thread_id |-> th, created_by |-> ProfileOfAuthor(AuthorOf(k)),
   author_member_id |-> am, audience |-> INBOX_TO_BOT,
   recipient_profile_id |-> NONE, content_ciphertext |-> seal_plaintext(<<"h", "i">>),
   created_at |-> ca, bot_processed_at |-> NULL, src |-> 0, run |-> NONE]

\* An inbound message relayed by an earlier run, and the relay it produced.
PriorRows ==
  LET PriorHuman == 90
      PriorRelay == 91
      PriorTime == 50
  IN
  (PriorHuman :> [InboundRow(PriorHuman, "T1", "mB", 1) EXCEPT
                    !.created_by = "B", !.bot_processed_at = PriorTime])
  @@
  (PriorRelay :> [id |-> PriorRelay, thread_id |-> "T1", created_by |-> "Z",
                  author_member_id |-> "aZ", audience |-> BOT_TO_USER,
                  recipient_profile_id |-> "A",
                  content_ciphertext |-> seal_plaintext(<<"o", "k">>),
                  created_at |-> PriorTime, bot_processed_at |-> NULL,
                  src |-> PriorHuman, run |-> NONE])

\* Stores with n pending inbound messages, all in thread T1 with their authors'
\* memberships in place and increasing created_at.
PlainMessages(n) ==
  [k \in 1..n |-> InboundRow(k, "T1", AuthorOf(k), k)] @@ PriorRows

\* Stores with n pending inbound messages. Message 1 is A's post in T1. Every
\* later message varies in its thread, in whether its author's membership row
\* still exists, and in whether its created_at ties with its predecessor's.
VariedMessages(n) ==
  { [k \in 1..n |->
       InboundRow(k, th[k], IF gone[k] THEN "mX" ELSE AuthorOf(k), k - tie[k])]
    @@ PriorRows :
      th \in {f \in [1..n -> ThreadIds] : f[1] = "T1"},
      gone \in {f \in [1..n -> BOOLEAN] : ~f[1]},
      tie \in {f \in [1..n -> 0..1] : f[1] = 0} }

NoLoc == [loop_id |-> NONE, author_profile_id |-> NONE, recipients |-> <<>>,
          ri |-> 1, bot_member_id |-> NONE, new_ids |-> <<>>, relay_text |-> <<>>,
          exc |-> NONE]
NoItem == [human_message_id |-> 0, thread_id |-> NONE, recipients |-> <<>>,
           bot_rows |-> <<>>, skipped_reason |-> NONE]
NoTx == [open |-> FALSE, seq |-> 0, inserts |-> {}, marks |-> {}]
NoStats == [scanned |-> 0, processed |-> 0, inserted |-> 0, skipped |-> 0,
            dry_run |-> FALSE]
NoArgs == [thread_id |-> NONE, limit |-> 1, dry_run |-> FALSE, x_user_id |-> NONE]

\* No exception (last_exc = None), and the state of no call.
NoExc == [cls |-> <<>>, msg |-> <<>>]
NoChat == [pc |-> "idle", LLM_RETRIES |-> 0, LLM_RETRY_MAX_S |-> 1, LLM_MAX_CHARS |-> 1,
           client |-> FALSE,
           attempt |-> 0, delay |-> 1, e |-> NoExc, last_exc |-> NoExc,
           calls |-> <<>>, sleeps |-> <<>>, result |-> <<>>, raised |-> NoExc,
           reply |-> <<>>]

\* The state of no call of resolve_recipients_for_message.
NoResolve == [pc |-> "idle", members |-> {}, author_member_id |-> <<NONE, NONE>>,
              author_profile_id |-> NONE, known_bot_profile_ids |-> {},
              loop_id |-> NONE, result |-> <<>>, raised |-> NONE]

\* The state of no call of generate_reply, of no run of process (app/bot.py), of
\* no row lock, of no caller check and of no request to routes/messages.py.
NoGen == [pc |-> "idle"]
NoPub == [pc |-> "idle"]
NoLocks == [r \in Runs |-> {}]
NoAuth == [pc |-> "idle"]
NoApi == [pc |-> "idle"]

InitExt ==
  /\ gen = NoGen
  /\ pub = NoPub
  /\ locks = NoLocks
  /\ auth = NoAuth
  /\ api = NoApi

InitRuns ==
  /\ pc = [r \in Runs |-> "idle"]
  /\ args = [r \in Runs |-> NoArgs]
  /\ humans = [r \in Runs |-> <<>>]
  /\ hi = [r \in Runs |-> 1]
  /\ loc = [r \in Runs |-> NoLoc]
  /\ item = [r \in Runs |-> NoItem]
  /\ tx = [r \in Runs |-> NoTx]
  /\ stats = [r \in Runs |-> NoStats]
  /\ items = [r \in Runs |-> <<>>]

InitTables ==
  /\ threads = [t \in ThreadIds |-> "L1"]
  /\ loop_agents = {[id |-> "aZ", loop_id |-> "L1", agent_profile_id |-> "Z"]}

\* Concurrent runs share a store of MaxShared pending messages.
Init ==
  /\ InitTables
  /\ loop_members = HumanMembers
  /\ messages = PlainMessages(MaxShared)
  /\ InitRuns
  /\ llm = NoChat
  /\ rcp = NoResolve
  /\ InitExt

\* One run works on a store of MaxMsgs pending messages; the bot's profile may
\* have a row in loop_members.
InitBatch ==
  /\ InitTables
  /\ loop_members \in {HumanMembers, Append(HumanMembers, BotMemberRow)}
  /\ messages \in VariedMessages(MaxMsgs)
  /\ InitRuns
  /\ llm = NoChat
  /\ rcp = NoResolve
  /\ InitExt

\* ---- queries ----------------------------------------------------------------
Range(s) == {s[i] : i \in DOMAIN s}

\* The selection without its "bot_processed_at is null".
FetchWhere_NoProcessedTest(row, thread_id) ==
  /\ row.audience = INBOX_TO_BOT
  /\ (thread_id # NONE => row.thread_id = thread_id)

\* The selection without its "audience = %s".
FetchWhere_AnyAudience(row, thread_id) ==
  /\ row.bot_processed_at = NULL
  /\ (thread_id # NONE => row.thread_id = thread_id)

\* WHERE clause of the selection (lines 87-89 / 100-101).
FetchWhere(row, thread_id) ==
  /\ row.audience = INBOX_TO_BOT
  /\ row.bot_processed_at = NULL
  /\ (thread_id # NONE => row.thread_id = thread_id)

\* The selection without its ORDER BY.
OrderedBefore_Unordered(a, b) == TRUE

\* ORDER BY created_at ASC: what the clause fixes about two adjacent result rows.
OrderedBefore(a, b) == a.created_at <= b.created_at

\* LIMIT %s
Limited(n, limit) == Min(n, limit)

\* Every result the selection can return on table msgs: the first `limit` rows
\* of some ordering of the matching rows that respects ORDER BY. Rows with
\* equal created_at come in any order.
FetchResults(msgs, thread_id, limit) ==
  LET P == {id \in DOMAIN msgs : FetchWhere(msgs[id], thread_id)}
      k == Limited(Cardinality(P), limit)
  IN  { s \in [1..k -> P] :
          /\ \A i, j \in 1..k : i # j => s[i] # s[j]
          /\ \A i, j \in 1..k : i < j => OrderedBefore(msgs[s[i]], msgs[s[j]])
          /\ \A y \in P \ Range(s) : \A i \in 1..k : OrderedBefore(msgs[s[i]], msgs[y]) }

HumanDict(row) ==
  [id |-> row.id, thread_id |-> row.thread_id,
   author_member_id |-> row.author_member_id, created_by |-> row.created_by,
   created_at |-> row.created_at]

\* select lm.profile_id from loop_members lm where lm.loop_id = %s
MemberIds(loop_id) ==
  LET rows == SelectSeq(loop_members, LAMBDA m : m.loop_id = loop_id)
  IN  [i \in 1..Len(rows) |-> rows[i].profile_id]

\* select profile_id from loop_members where id = %s
AuthorRows(author_member_id) ==
  SelectSeq(loop_members, LAMBDA m : m.id = author_member_id)

\* recipients = [pid for pid in all_profiles if pid != author_profile_id]
Recipients(all_profiles, author_profile_id) ==
  SelectSeq(all_profiles, LAMBDA pid : pid # author_profile_id)

_resolve_bot_member_id(loop_id, bot_profile_id) ==
  LET rows == {la \in loop_agents :
                 la.loop_id = loop_id /\ la.agent_profile_id = bot_profile_id}
  IN  IF rows = {} THEN NONE ELSE (CHOOSE la \in rows : TRUE).id

\* ---- transactions -------------------------------------------------------------
\* The first statement after connect, commit or rollback opens a transaction.
Begun(t) ==
  IF t.open THEN t
  ELSE [open |-> TRUE, seq |-> t.seq + 1, inserts |-> {}, marks |-> {}]

\* A transaction that has ended: nothing pending, no row lock held.
Closed(t) == [t EXCEPT !.open = FALSE, !.inserts = {}, !.marks = {}]

\* A handler that forgets conn.rollback(): the failed message's statements
\* stay in the transaction.
Rollback_Missing(t) == t

\* conn.rollback(): pending inserts and updates are dropped, row locks released.
Rollback(t) == Closed(t)

\* The run that holds the row lock of message id (an uncommitted update).
LockHolders(id) == {q \in Runs : id \in tx[q].marks}

\* The update without its "and bot_processed_at is null".
MarkWhere_Unconditional(row, human_message_id) == row.id = human_message_id

\* Rows matched by the update of _mark_human_processed, evaluated on the
\* committed row once the row lock is free:
\*   where id = %s and bot_processed_at is null
MarkWhere(row, human_message_id) ==
  row.id = human_message_id /\ row.bot_processed_at = NULL

\* A commit that writes the inserted rows and loses the updates.
Committed_InsertsOnly(msgs, r, t) ==
  LET ins == {w.id : w \in t.inserts}
  IN  [id \in DOMAIN msgs \cup ins |->
         IF id \in ins THEN CHOOSE w \in t.inserts : w.id = id ELSE msgs[id]]

\* conn.commit(): the table after the transaction's inserts and updates.
Committed(msgs, r, t) ==
  LET now == TxTime(r, t.seq)
      ins == {w.id : w \in t.inserts}
  IN  [id \in DOMAIN msgs \cup ins |->
         IF id \in ins THEN CHOOSE w \in t.inserts : w.id = id
         ELSE IF id \in t.marks THEN [msgs[id] EXCEPT !.bot_processed_at = now]
         ELSE msgs[id]]

\* ---- process_queue --------------------------------------------------------------
Cur(r) == humans[r][hi[r]]

\* lines 241-248: authorise, connect, select the batch.
Requests(scopes) ==
  [thread_id : scopes, limit : 1..MaxLimit, dry_run : BOOLEAN, x_user_id : BotIds]

Fetch(r, requests) ==
  /\ pc[r] = "idle"
  /\ \E req \in requests :
       \E s \in FetchResults(messages, req.thread_id, req.limit) :
         /\ args' = [args EXCEPT ![r] = req]
         /\ humans' = [humans EXCEPT ![r] = [i \in 1..Len(s) |-> HumanDict(messages[s[i]])]]
         /\ stats' = [stats EXCEPT ![r] = [NoStats EXCEPT !.dry_run = req.dry_run,
                                                          !.scanned = Len(s)]]
  /\ tx' = [tx EXCEPT ![r] = Begun(@)]
  /\ pc' = [pc EXCEPT ![r] = "loop"]
  /\ UNCHANGED <<ext, llm, rcp, store, messages, hi, loc, item, items>>

\* The loop body without its dry_run tests.
AfterResolve_IgnoresDryRun(dry_run, recipients) ==
  IF recipients = <<>> THEN "mark" ELSE "gen"

\* Position after the recipients are resolved (lines 286-288, 312): a dry run
\* passes over every recipient and over the mark.
AfterResolve(dry_run, recipients) ==
  IF dry_run THEN "commit" ELSE IF recipients = <<>> THEN "mark" ELSE "gen"

\* Position after recipient ri is done.
AfterRecipient(ri, recipients) == IF ri >= Len(recipients) THEN "mark" ELSE "gen"

\* An exception of kind exc leaves the try block for the handler of line 324.
Raised(r, it, st, exc) ==
  /\ loc' = [loc EXCEPT ![r].exc = exc]
  /\ item' = [item EXCEPT ![r] = it]
  /\ stats' = [stats EXCEPT ![r] = st]
  /\ pc' = [pc EXCEPT ![r] = "except"]
  /\ UNCHANGED <<tx, items, hi>>

\* The skip that forgets stats.skipped += 1.
Skipped_Uncounted(r, t, it, st, reason) ==
  /\ tx' = [tx EXCEPT ![r] = Rollback(t)]
  /\ items' = [items EXCEPT ![r] = Append(@, [it EXCEPT !.skipped_reason = reason])]
  /\ stats' = [stats EXCEPT ![r] = st]
  /\ hi' = [hi EXCEPT ![r] = @ + 1]
  /\ pc' = [pc EXCEPT ![r] = "loop"]
  /\ item' = [item EXCEPT ![r] = NoItem]
  /\ loc' = [loc EXCEPT ![r] = NoLoc]

\* The skip of lines 266-270 and of lines 325-328: rollback, record, next h.
Skipped(r, t, it, st, reason) ==
  /\ tx' = [tx EXCEPT ![r] = Rollback(t)]
  /\ items' = [items EXCEPT ![r] = Append(@, [it EXCEPT !.skipped_reason = reason])]
  /\ stats' = [stats EXCEPT ![r] = [st EXCEPT !.skipped = @ + 1]]
  /\ hi' = [hi EXCEPT ![r] = @ + 1]
  /\ pc' = [pc EXCEPT ![r] = "loop"]
  /\ item' = [item EXCEPT ![r] = NoItem]
  /\ loc' = [loc EXCEPT ![r] = NoLoc]

\* lines 250-282: the reads that open the handling of one source message.
BeginMessage(r) ==
  /\ pc[r] = "loop"
  /\ hi[r] <= Len(humans[r])
  /\ LET h == Cur(r)
         it == [NoItem EXCEPT !.human_message_id = h.id, !.thread_id = h.thread_id]
         author == AuthorRows(h.author_member_id)
     IN  IF h.thread_id \notin DOMAIN threads
         THEN \* HTTPException(404): rollback, raise; the run ends without a response
              /\ tx' = [tx EXCEPT ![r] = Rollback(Begun(@))]
              /\ loc' = [loc EXCEPT ![r].exc = "HTTPException"]
              /\ pc' = [pc EXCEPT ![r] = "raised"]
              /\ UNCHANGED <<ext, llm, rcp, store, messages, args, humans, hi, item, stats, items>>
         ELSE IF author = <<>>
         THEN /\ Skipped(r, Begun(tx[r]), it, stats[r], "author member not found")
              /\ UNCHANGED <<ext, llm, rcp, store, messages, args, humans>>
         ELSE LET loop_id == threads[h.thread_id]
                  recipients == Recipients(MemberIds(loop_id), author[1].profile_id)
              IN  /\ loc' = [loc EXCEPT ![r] =
                        [NoLoc EXCEPT !.loop_id = loop_id,
                                      !.author_profile_id = author[1].profile_id,
                                      !.recipients = recipients,
                                      !.bot_member_id =
                                         _resolve_bot_member_id(loop_id, args[r].x_user_id)]]
                  /\ item' = [item EXCEPT ![r] = [it EXCEPT !.recipients = recipients]]
                  /\ tx' = [tx EXCEPT ![r] = Begun(@)]
                  /\ pc' = [pc EXCEPT ![r] = AfterResolve(args[r].dry_run, recipients)]
                  /\ UNCHANGED <<ext, llm, rcp, store, messages, args, humans, hi, stats, items>>

\* lines 289-298: one call of generate_reply; it returns a text or raises.
Generate(r) ==
  /\ pc[r] = "gen"
  /\ \/ \E t \in GenTexts :
          LET relay_text == Strip(t)
          IN  /\ IF relay_text = <<>>
                 THEN /\ loc' = [loc EXCEPT ![r].ri = @ + 1]
                      /\ pc' = [pc EXCEPT ![r] =
                                  AfterRecipient(loc[r].ri, loc[r].recipients)]
                 ELSE /\ loc' = [loc EXCEPT ![r].relay_text = relay_text]
                      /\ pc' = [pc EXCEPT ![r] = "insert"]
              /\ UNCHANGED <<ext, llm, rcp, store, messages, args, humans, hi, item, tx, stats, items>>
     \/ /\ Raised(r, item[r], stats[r], "llm")
        /\ UNCHANGED <<ext, llm, rcp, store, messages, args, humans>>

\* The row written with the source message's creator as created_by.
BotRow_AuthorAsCreator(r, h, recipient_profile_id, plaintext) ==
  [id |-> NewId(r, h.id, recipient_profile_id),
   thread_id |-> h.thread_id,
   created_by |-> h.created_by,
   author_member_id |-> loc[r].bot_member_id,
   audience |-> BOT_TO_USER,
   recipient_profile_id |-> recipient_profile_id,
   content_ciphertext |-> seal_plaintext(plaintext),
   created_at |-> TxTime(r, tx[r].seq),
   bot_processed_at |-> NULL,
   src |-> h.id, run |-> r]

\* lines 300-309: _insert_bot_dm, then new_ids.append. src and run are no
\* columns of the table: they record the source message a row was produced for
\* and the run that inserted it.
BotRow(r, h, recipient_profile_id, plaintext) ==
  [id |-> NewId(r, h.id, recipient_profile_id),
   thread_id |-> h.thread_id,
   created_by |-> args[r].x_user_id,
   author_member_id |-> loc[r].bot_member_id,
   audience |-> BOT_TO_USER,
   recipient_profile_id |-> recipient_profile_id,
   content_ciphertext |-> seal_plaintext(plaintext),
   created_at |-> TxTime(r, tx[r].seq),
   bot_processed_at |-> NULL,
   src |-> h.id, run |-> r]

Insert(r) ==
  /\ pc[r] = "insert"
  /\ \/ LET row == BotRow(r, Cur(r), loc[r].recipients[loc[r].ri], loc[r].relay_text)
        IN  /\ tx' = [tx EXCEPT ![r].inserts = @ \cup {row}]
            /\ loc' = [loc EXCEPT ![r].new_ids = Append(@, row.id), ![r].ri = @ + 1]
            /\ pc' = [pc EXCEPT ![r] = AfterRecipient(loc[r].ri, loc[r].recipients)]
            /\ UNCHANGED <<ext, llm, rcp, store, messages, args, humans, hi, item, stats, items>>
     \/ /\ Raised(r, item[r], stats[r], "db")
        /\ UNCHANGED <<ext, llm, rcp, store, messages, args, humans>>

\* lines 312-313: _mark_human_processed. The update waits for the row lock of
\* a concurrent uncommitted update, then tests its WHERE on the committed row.
Mark(r) ==
  /\ pc[r] = "mark"
  /\ \/ /\ LockHolders(Cur(r).id) \subseteq {r}
        /\ tx' = [tx EXCEPT ![r].marks =
                    @ \cup {id \in DOMAIN messages : MarkWhere(messages[id], Cur(r).id)}]
        /\ pc' = [pc EXCEPT ![r] = "commit"]
        /\ UNCHANGED <<ext, llm, rcp, store, messages, args, humans, hi, loc, item, stats, items>>
     \/ /\ Raised(r, item[r], stats[r], "db")
        /\ UNCHANGED <<ext, llm, rcp, store, messages, args, humans>>

\* lines 315-320: count the message, commit, record the item. A commit that
\* raises lands in the handler of lines 324-328 with the counters already bumped.
Commit(r) ==
  /\ pc[r] = "commit"
  /\ LET st == [stats[r] EXCEPT !.processed = @ + 1,
                                !.inserted = @ + Len(loc[r].new_ids)]
         it == [item[r] EXCEPT !.bot_rows = loc[r].new_ids]
     IN  \/ /\ messages' = Committed(messages, r, tx[r])
            /\ tx' = [tx EXCEPT ![r] = Closed(@)]
            /\ stats' = [stats EXCEPT ![r] = st]
            /\ items' = [items EXCEPT ![r] = Append(@, it)]
            /\ hi' = [hi EXCEPT ![r] = @ + 1]
            /\ pc' = [pc EXCEPT ![r] = "loop"]
            /\ item' = [item EXCEPT ![r] = NoItem]
            /\ loc' = [loc EXCEPT ![r] = NoLoc]
            /\ UNCHANGED <<ext, llm, rcp, store, args, humans>>
         \/ /\ Raised(r, it, st, "db")
            /\ UNCHANGED <<ext, llm, rcp, store, messages, args, humans>>

\* skipped_reason = f"error: {e}"
ErrorReason(exc) == IF exc = "llm" THEN "error: llm" ELSE "error: db"

\* lines 324-328: except Exception.
Handler(r) ==
  /\ pc[r] = "except"
  /\ Skipped(r, tx[r], item[r], stats[r], ErrorReason(loc[r].exc))
  /\ UNCHANGED <<ext, llm, rcp, store, messages, args, humans>>

\* line 330 and get_conn's finally: the response is built, the connection closed.
Finish(r) ==
  /\ pc[r] = "loop"
  /\ hi[r] > Len(humans[r])
  /\ pc' = [pc EXCEPT ![r] = "done"]
  /\ tx' = [tx EXCEPT ![r] = Closed(@)]
  /\ UNCHANGED <<ext, llm, rcp, store, messages, args, humans, hi, loc, item, stats, items>>

\* Concurrent callers, each asking for the whole queue.
Next ==
  \E r \in Runs :
    \/ Fetch(r, Requests({NONE}))
    \/ BeginMessage(r)
    \/ Generate(r)
    \/ Insert(r)
    \/ Mark(r)
    \/ Commit(r)
    \/ Handler(r)
    \/ Finish(r)

Spec == Init /\ [][Next]_vars

\* One caller, with or without a thread scope.
NextBatch ==
  \/ Fetch("r1", Requests({NONE} \cup ThreadIds))
  \/ BeginMessage("r1")
  \/ Generate("r1")
  \/ Insert("r1")
  \/ Mark("r1")
  \/ Commit("r1")
  \/ Handler("r1")
  \/ Finish("r1")

SpecBatch == InitBatch /\ [][NextBatch]_vars

\* ---- a store with faults ---------------------------------------------------------
\* What get_conn raises when DATABASE_URL is unset, and what psycopg.connect
\* raises when the server cannot be reached.
ConnectErrors == {"RuntimeError", "OperationalError"}

\* lines 241-245 when get_conn raises: nothing in process_queue catches it.
ConnectFails(r, requests) ==
  /\ pc[r] = "idle"
  /\ \E req \in requests, exc \in ConnectErrors :
       /\ args' = [args EXCEPT ![r] = req]
       /\ stats' = [stats EXCEPT ![r] = [NoStats EXCEPT !.dry_run = req.dry_run]]
       /\ loc' = [loc EXCEPT ![r].exc = exc]
  /\ pc' = [pc EXCEPT ![r] = "raised"]
  /\ UNCHANGED <<ext, llm, rcp, store, messages, humans, hi, item, tx, items>>

\* Stores with n pending inbound messages whose later messages vary in their
\* thread.
ScatteredMessages(n) ==
  { [k \in 1..n |-> InboundRow(k, th[k], AuthorOf(k), k)] @@ PriorRows :
      th \in {f \in [1..n -> ThreadIds] : f[1] = "T1"} }

\* One run on a store where the row of thread T2 may be gone, the bot may have
\* no row in loop_agents, and A may be the only member of the loop.
InitFaults ==
  /\ threads \in {[t \in ThreadIds |-> "L1"], [t \in {"T1"} |-> "L1"]}
  /\ loop_agents \in {{[id |-> "aZ", loop_id |-> "L1", agent_profile_id |-> "Z"]}, {}}
  /\ loop_members \in {HumanMembers, SubSeq(HumanMembers, 1, 1)}
  /\ messages \in ScatteredMessages(MaxMsgs)
  /\ InitRuns
  /\ llm = NoChat
  /\ rcp = NoResolve
  /\ InitExt

NextFaults ==
  \/ ConnectFails("r1", Requests({NONE}))
  \/ Fetch("r1", Requests({NONE}))
  \/ BeginMessage("r1")
  \/ Generate("r1")
  \/ Insert("r1")
  \/ Mark("r1")
  \/ Commit("r1")
  \/ Handler("r1")
  \/ Finish("r1")

SpecFaults == InitFaults /\ [][NextFaults]_vars

\* ---- cancellation -------------------------------------------------------------
\* A connection closed with a transaction open commits everything pending.
Discarded_Committed(msgs, r, t) == Committed(msgs, r, t)

\* get_conn's finally closes the connection without a commit: the server
\* discards the open transaction and the table stays as it is.
Discarded(msgs, r, t) == msgs

\* The run has returned, raised or been cancelled.
Over(r) == pc[r] \in {"done", "raised", "cancelled"}

\* The request is abandoned mid-batch (worker timeout, interrupt, kill): what
\* leaves process_queue is no Exception, so no handler of lines 321-328 runs
\* and only get_conn's finally does.
Cancel(r) ==
  /\ ~Over(r) /\ pc[r] # "idle"
  /\ messages' = Discarded(messages, r, tx[r])
  /\ tx' = [tx EXCEPT ![r] = Closed(@)]
  /\ pc' = [pc EXCEPT ![r] = "cancelled"]
  /\ UNCHANGED <<ext, llm, rcp, store, args, humans, hi, loc, item, stats, items>>

\* A store of MaxMsgs pending messages.
InitCancel ==
  /\ InitTables
  /\ loop_members = HumanMembers
  /\ messages = PlainMessages(MaxMsgs)
  /\ InitRuns
  /\ llm = NoChat
  /\ rcp = NoResolve
  /\ InitExt

\* One run that may be cancelled, and the selection of the run that follows it.
NextCancel ==
  \/ Fetch("r1", Requests({NONE}))
  \/ BeginMessage("r1")
  \/ Generate("r1")
  \/ Insert("r1")
  \/ Mark("r1")
  \/ Commit("r1")
  \/ Handler("r1")
  \/ Finish("r1")
  \/ Cancel("r1")
  \/ Over("r1") /\ Fetch("r2", Requests({NONE}))

SpecCancel == InitCancel /\ [][NextCancel]_vars

\* ---- _chat_with_retry (app/llm.py) ----------------------------------------------
UpperCase == <<"A", "B", "C", "D", "E", "F", "G", "H", "I", "J", "K", "L", "M", "N", "O", "P", "Q", "R", "S", "T", "U", "V", "W", "X", "Y", "Z">>
LowerCase == <<"a", "b", "c", "d", "e", "f", "g", "h", "i", "j", "k", "l", "m", "n", "o", "p", "q", "r", "s", "t", "u", "v", "w", "x", "y", "z">>

\* str.lower(), one character
Lower(c) ==
  IF \E i \in DOMAIN UpperCase : UpperCase[i] = c
  THEN LowerCase[CHOOSE i \in DOMAIN UpperCase : UpperCase[i] = c]
  ELSE c

LowerAll(s) == [i \in 1..Len(s) |-> Lower(s[i])]

\* key in text
Contains(text, key) ==
  \E i \in 1..(Len(text) - Len(key) + 1) : SubSeq(text, i, i + Len(key) - 1) = key

TransientKeys ==
  { <<"t", "i", "m", "e", "o", "u", "t">>,
    <<"t", "i", "m", "e", "d", " ", "o", "u", "t">>,
    <<"r", "a", "t", "e">>,
    <<"l", "i", "m", "i", "t">>,
    <<"o", "v", "e", "r", "l", "o", "a", "d", "e", "d">>,
    <<"s", "e", "r", "v", "e", "r", " ", "e", "r", "r", "o", "r">>,
    <<"5", "0", "3">>,
    <<"5", "0", "2">>,
    <<"5", "0", "0">> }

\* An exception is its class name and its str().
_is_transient_error(exc) ==
  LET name == exc.cls
      msg == LowerAll(exc.msg)
  IN  \E key \in TransientKeys : Contains(LowerAll(name) \o <<" ">> \o msg, key)

NotConfigured == [cls |-> <<"R", "u", "n", "t", "i", "m", "e", "E", "r", "r", "o", "r">>, msg |-> <<"OPENAI_API_KEY not configured">>]
UnknownFailure == [cls |-> <<"R", "u", "n", "t", "i", "m", "e", "E", "r", "r", "o", "r">>, msg |-> <<"Unknown LLM failure">>]

\* What the provider client raises: a timeout, a rate limit, a server error, a
\* rejected request.
APITimeoutError == [cls |-> <<"A", "P", "I", "T", "i", "m", "e", "o", "u", "t", "E", "r", "r", "o", "r">>, msg |-> <<"R", "e", "q", "u", "e", "s", "t", " ", "t", "i", "m", "e", "d", " ", "o", "u", "t", ".">>]
RateLimitError == [cls |-> <<"R", "a", "t", "e", "L", "i", "m", "i", "t", "E", "r", "r", "o", "r">>, msg |-> <<"E", "r", "r", "o", "r", " ", "c", "o", "d", "e", ":", " ", "4", "2", "9">>]
InternalServerError == [cls |-> <<"I", "n", "t", "e", "r", "n", "a", "l", "S", "e", "r", "v", "e", "r", "E", "r", "r", "o", "r">>, msg |-> <<"E", "r", "r", "o", "r", " ", "c", "o", "d", "e", ":", " ", "5", "0", "0">>]
BadRequestError == [cls |-> <<"B", "a", "d", "R", "e", "q", "u", "e", "s", "t", "E", "r", "r", "o", "r">>, msg |-> <<"E", "r", "r", "o", "r", " ", "c", "o", "d", "e", ":", " ", "4", "0", "0">>]
ProviderErrors == {APITimeoutError, RateLimitError, InternalServerError, BadRequestError}

\* resp.choices[0].message.content: every text of letters and spaces up to
\* MaxContent characters.
Contents == UNION {[1..n -> {" ", "a"}] : n \in 0..MaxContent}

\* LLM_RETRY_MAX_SEC settings
RetryCeilings == {1, 3, 10}

ChatSettings ==
  { [NoChat EXCEPT !.pc = "start", !.LLM_RETRIES = R, !.LLM_RETRY_MAX_S = c,
                   !.LLM_MAX_CHARS = mc, !.client = cl] :
      R \in (-1)..MaxRetries, c \in RetryCeilings, mc \in 1..MaxContent,
      cl \in BOOLEAN }

\* The loop with one attempt too many.
Attempts_OneMore(retries) == retries + 2

\* range(LLM_RETRIES + 1)
Attempts(retries) == retries + 1

\* The handler that gives up only when the attempts are used up.
ShouldRaise_OnlyWhenExhausted(attempt, retries, exc) == attempt >= retries

\* if attempt >= LLM_RETRIES or not _is_transient_error(e): raise
ShouldRaise(attempt, retries, exc) ==
  attempt >= retries \/ ~_is_transient_error(exc)

\* What a call of _chat_with_retry leaves alone.
queue == <<messages, pc, args, humans, hi, loc, item, tx, stats, items>>

\* lines 161-165: no client, no call.
ChatEnter ==
  /\ llm.pc = "start"
  /\ llm' = IF llm.client
            THEN [llm EXCEPT !.pc = "loop", !.delay = 1, !.last_exc = NoExc]
            ELSE [llm EXCEPT !.pc = "raised", !.raised = NotConfigured]
  /\ UNCHANGED <<ext, rcp, store, queue>>

\* line 166 and line 189: the next attempt, or the end of the range.
ChatLoop ==
  /\ llm.pc = "loop"
  /\ llm' = IF llm.attempt < Attempts(llm.LLM_RETRIES)
            THEN [llm EXCEPT !.pc = "call"]
            ELSE [llm EXCEPT !.pc = "raised",
                             !.raised = IF llm.last_exc = NoExc THEN UnknownFailure
                                        ELSE llm.last_exc]
  /\ UNCHANGED <<ext, rcp, store, queue>>

\* lines 167-180: one provider call; it answers or raises.
ChatCall ==
  /\ llm.pc = "call"
  /\ \/ \E content \in Contents :
          llm' = [llm EXCEPT !.pc = "returned", !.result = Strip(content),
                             !.calls = Append(@, [ok |-> TRUE, exc |-> NoExc])]
     \/ \E exc \in ProviderErrors :
          llm' = [llm EXCEPT !.pc = "except", !.e = exc,
                             !.calls = Append(@, [ok |-> FALSE, exc |-> exc])]
  /\ UNCHANGED <<ext, rcp, store, queue>>

\* The sleep that ignores the ceiling.
SleepFor_Uncapped(delay, ceiling) == delay

\* time.sleep(min(delay, LLM_RETRY_MAX_S))
SleepFor(delay, ceiling) == Min(delay, ceiling)

\* lines 181-187: raise, or sleep and go round again.
ChatExcept ==
  /\ llm.pc = "except"
  /\ llm' = IF ShouldRaise(llm.attempt, llm.LLM_RETRIES, llm.e)
            THEN [llm EXCEPT !.pc = "raised", !.last_exc = llm.e, !.raised = llm.e]
            ELSE [llm EXCEPT !.pc = "loop", !.last_exc = llm.e,
                             !.sleeps = Append(@, SleepFor(llm.delay, llm.LLM_RETRY_MAX_S)),
                             !.delay = 2 * @,
                             !.attempt = @ + 1]
  /\ UNCHANGED <<ext, rcp, store, queue>>

\* The guardrail that returns the text as it is.
_post_trim_Untrimmed(text, max_chars) == text

\* text[:LLM_MAX_CHARS].rstrip() when the text is longer than LLM_MAX_CHARS
_post_trim(text, max_chars) ==
  IF Len(text) > max_chars THEN RStrip(SubSeq(text, 1, max_chars)) ELSE text

\* generate_reply, lines 249-257: the text _chat_with_retry returned goes
\* through _post_trim; an exception of _chat_with_retry propagates.
ReplyTrim ==
  /\ llm.pc = "returned"
  /\ llm' = [llm EXCEPT !.pc = "replied",
                        !.reply = _post_trim(llm.result, llm.LLM_MAX_CHARS)]
  /\ UNCHANGED <<ext, rcp, store, queue>>

InitRetry ==
  /\ InitTables
  /\ loop_members = HumanMembers
  /\ messages = PriorRows
  /\ InitRuns
  /\ llm \in ChatSettings
  /\ rcp = NoResolve
  /\ InitExt

NextRetry ==
  \/ ChatEnter
  \/ ChatLoop
  \/ ChatCall
  \/ ChatExcept
  \/ ReplyTrim

\* The call runs on its own thread of control: a provider call ends (the client
\* has a timeout) and a sleep ends.
SpecRetry == InitRetry /\ [][NextRetry]_vars /\ WF_vars(NextRetry)

\* ---- resolve_recipients_for_message (app/services/recipients.py) ---------------
Loops == {"L1", "L2"}

\* members(id, loop_id, profile_id): a profile has at most one row per loop.
MemberRow(l, p) == [id |-> <<l, p>>, loop_id |-> l, profile_id |-> p]

MemberTables ==
  {T \in SUBSET {MemberRow(l, p) : l \in Loops, p \in Profiles} :
     Cardinality(T) <= MaxMembers}

\* cur.fetchall(): the rows in some order.
RECURSIVE FetchAll(_)
FetchAll(rows) ==
  IF rows = {} THEN <<>>
  ELSE LET row == CHOOSE row \in rows : TRUE
       IN  <<row>> \o FetchAll(rows \ {row})

\* SELECT loop_id FROM members WHERE id = %s
_fetch_loop_id_for_member(members, author_member_id) ==
  LET rows == {m \in members : m.id = author_member_id}
  IN  IF rows = {} THEN NONE ELSE (CHOOSE m \in rows : TRUE).loop_id

\* SELECT m.profile_id FROM members m
\* WHERE m.loop_id = %s AND m.profile_id NOT IN (...)
_fetch_recipients_for_loop(members, loop_id, exclude_profile_ids) ==
  LET rows == FetchAll({m \in members : /\ m.loop_id = loop_id
                                         /\ m.profile_id \notin exclude_profile_ids})
  IN  [i \in 1..Len(rows) |-> rows[i].profile_id]

\* The exclusion without the author.
ExcludeSet_BotsOnly(author_profile_id, known_bot_profile_ids) == known_bot_profile_ids

\* exclude = set(known_bot_profile_ids or []); exclude.add(author_profile_id)
ExcludeSet(author_profile_id, known_bot_profile_ids) ==
  known_bot_profile_ids \cup {author_profile_id}

ResolveCalls ==
  { [NoResolve EXCEPT !.pc = "start", !.members = T, !.author_member_id = <<l, p>>,
                      !.author_profile_id = a, !.known_bot_profile_ids = bots] :
      T \in MemberTables, l \in Loops, p \in {"A", "B"}, a \in {"A", "B"},
      bots \in {{}, {"Z"}, {"C", "Z"}} }

\* What a call of resolve_recipients_for_message leaves alone.
elsewhere == <<store, queue, llm, ext>>

\* lines 91-93: no loop for the member id, so an empty list.
ResolveLoop ==
  /\ rcp.pc = "start"
  /\ LET loop_id == _fetch_loop_id_for_member(rcp.members, rcp.author_member_id)
     IN  rcp' = IF loop_id = NONE
                THEN [rcp EXCEPT !.pc = "returned", !.result = <<>>]
                ELSE [rcp EXCEPT !.pc = "fetch", !.loop_id = loop_id]
  /\ UNCHANGED elsewhere

\* lines 95-98
ResolveFetch ==
  /\ rcp.pc = "fetch"
  /\ rcp' = [rcp EXCEPT
               !.pc = "returned",
               !.result = _fetch_recipients_for_loop(
                            rcp.members, rcp.loop_id,
                            ExcludeSet(rcp.author_profile_id, rcp.known_bot_profile_ids))]
  /\ UNCHANGED elsewhere

InitResolve ==
  /\ InitTables
  /\ loop_members = HumanMembers
  /\ messages = PriorRows
  /\ InitRuns
  /\ llm = NoChat
  /\ rcp \in ResolveCalls
  /\ InitExt

NextResolve ==
  \/ ResolveLoop
  \/ ResolveFetch

SpecResolve == InitResolve /\ [][NextResolve]_vars

\* ---- generate_reply as called from process_queue ---------------------------------
\* limit=5 of the call at routes/bot.py line 278
ContextLimit == 5
\* Most messages of the sender in the thread.
MaxSender == 6

\* A row of the messages table as _select_recent_sender_messages reads it.
ContextRow(th, am, ca, text) ==
  [thread_id |-> th, author_member_id |-> am, created_at |-> ca,
   content_ciphertext |-> seal_plaintext(text)]

\* The text of the sender's k-th message.
TextOf(k) == <<LowerCase[k]>>

\* Tables in which the sender mA has posted n messages to T1 at times 1..n, the
\* newest being the one under relay; another member may have posted to T1, the
\* sender may have posted to another thread, and the bot may have relayed to T1.
ContextTables ==
  { {ContextRow("T1", "mA", k, TextOf(k)) : k \in 1..n}
    \cup (IF other THEN {ContextRow("T1", "mB", n + 1, <<"x">>)} ELSE {})
    \cup (IF away THEN {ContextRow("T2", "mA", n + 2, <<"y">>)} ELSE {})
    \cup (IF relay THEN {ContextRow("T1", "aZ", n + 3, <<"z">>)} ELSE {}) :
      n \in 1..MaxSender, other \in BOOLEAN, away \in BOOLEAN, relay \in BOOLEAN }

\* order by created_at desc
RECURSIVE NewestFirst(_)
NewestFirst(rows) ==
  IF rows = {} THEN <<>>
  ELSE LET top == CHOOSE x \in rows : \A y \in rows : y.created_at <= x.created_at
       IN <<top>> \o NewestFirst(rows \ {top})

Reversed(s) == [i \in 1..Len(s) |-> s[Len(s) + 1 - i]]

\* if text.startswith("cipher:"): text = text[len("cipher:"):]
Unprefixed(cipher_text) ==
  IF cipher_text # <<>> /\ Head(cipher_text) = "cipher:" THEN Tail(cipher_text)
  ELSE cipher_text

\* select ... where thread_id = %s and author_member_id = %s
\* order by created_at desc limit %s
RecentRows(rows, thread_id, author_member_id, limit) ==
  LET all == NewestFirst({x \in rows : x.thread_id = thread_id
                                       /\ x.author_member_id = author_member_id})
  IN SubSeq(all, 1, Min(Len(all), limit))

\* _select_recent_sender_messages: rows[::-1], prefix removed, stripped
_select_recent_sender_messages(rows, thread_id, author_member_id, limit) ==
  LET found == Reversed(RecentRows(rows, thread_id, author_member_id, limit))
  IN [i \in 1..Len(found) |-> Strip(Unprefixed(found[i].content_ciphertext))]

\* kwargs.get(key, default)
Get(kwargs, key, default) == IF key \in DOMAIN kwargs THEN kwargs[key] ELSE default

\* The keyword arguments of the call at routes/bot.py lines 289-295.
CallKeywords(context_snippets) ==
  [sender_profile_id |-> "A", recipient_profile_id |-> "B", thread_id |-> "T1",
   loop_id |-> "L1", recent_messages |-> context_snippets]

NoneText == <<"(none)">>
PromptLine(idx, author, text) == [idx |-> idx, author |-> author, text |-> text]

\* _build_user_prompt: the lines of the user payload under "INPUT MESSAGES:".
\* context_messages is None or a list of [author, text]; an empty list and None
\* both take the legacy branch.
_build_user_prompt(context_messages, message_text) ==
  IF context_messages # NONE /\ context_messages # <<>>
  THEN LET kept == SelectSeq([i \in DOMAIN context_messages |->
                                PromptLine(i, context_messages[i].author,
                                           Strip(context_messages[i].text))],
                             LAMBDA l : l.text # <<>>)
       IN kept
  ELSE LET msg == Strip(message_text)
       IN <<PromptLine(1, "User", IF msg # <<>> THEN msg ELSE NoneText)>>

GenCalls ==
  { [pc |-> "select", rows |-> t, context_snippets |-> <<>>, kwargs |-> <<>>,
     user_payload |-> <<>>] : t \in ContextTables }

\* What a call of generate_reply leaves alone.
besides == <<store, queue, llm, rcp, pub, locks, auth, api>>

\* routes/bot.py lines 277-279
SelectContext ==
  /\ gen.pc = "select"
  /\ gen' = [gen EXCEPT !.pc = "call",
                        !.context_snippets =
                          _select_recent_sender_messages(gen.rows, "T1", "mA", ContextLimit)]
  /\ UNCHANGED besides

\* routes/bot.py lines 289-295: the call and its keywords
CallGenerate ==
  /\ gen.pc = "call"
  /\ gen' = [gen EXCEPT !.pc = "build", !.kwargs = CallKeywords(gen.context_snippets)]
  /\ UNCHANGED besides

\* llm.py lines 234-247: the keywords generate_reply reads, and the prompt
BuildPrompt ==
  /\ gen.pc = "build"
  /\ gen' = [gen EXCEPT !.pc = "prompted",
                        !.user_payload =
                          _build_user_prompt(Get(gen.kwargs, "context_messages", NONE),
                                             Get(gen.kwargs, "message_text", <<>>))]
  /\ UNCHANGED besides

InitPrompt ==
  /\ InitTables
  /\ loop_members = HumanMembers
  /\ messages = PriorRows
  /\ InitRuns
  /\ llm = NoChat
  /\ rcp = NoResolve
  /\ gen \in GenCalls
  /\ pub = NoPub
  /\ locks = NoLocks
  /\ auth = NoAuth
  /\ api = NoApi

NextPrompt ==
  \/ SelectContext
  \/ CallGenerate
  \/ BuildPrompt

SpecPrompt == InitPrompt /\ [][NextPrompt]_vars

\* ---- process (app/bot.py) --------------------------------------------------------
\* Pending inbound messages of the store process works on.
MaxPub == 2

\* The members table: the humans of loop L1 and the bot.
PubMembers == Append(HumanMembers, BotMemberRow)

\* generate_reply of app/bot.py, line 20
FYI == <<"F", "Y", "I", ".">>

\* An inbound row with the columns process reads and writes.
PubInbound(k, am) ==
  [id |-> k, thread_id |-> "T1", created_at |-> k,
   created_by |-> ProfileOfAuthor(AuthorOf(k)), author_member_id |-> am,
   audience |-> INBOX_TO_BOT, recipient_profile_id |-> NONE,
   content_ciphertext |-> <<"h", "i">>, processed |-> FALSE, processed_at |-> NULL,
   src |-> 0]

\* Stores with MaxPub pending messages; the last one may lack author_member_id.
PubTables ==
  { [k \in 1..MaxPub |->
       PubInbound(k, IF k = MaxPub /\ missing THEN NONE ELSE AuthorOf(k))] :
      missing \in BOOLEAN }

NoPubRun == [pc |-> "idle", limit |-> 1, dry_run |-> FALSE, x_user_id |-> NONE,
             rows |-> <<>>, to_publish |-> <<>>, source_ids |-> <<>>,
             items |-> <<>>, failed |-> 0,
             scanned |-> 0, processed |-> 0, inserted |-> 0, skipped |-> 0,
             ok |-> TRUE]

PubStates ==
  { [pc |-> "ready", messages |-> t, clock |-> 100, run |-> [r \in Runs |-> NoPubRun]] :
      t \in PubTables }

\* What a run of process leaves alone.
outside == <<store, queue, llm, rcp, gen, locks, auth, api>>

\* _select_unprocessed, lines 44-59, for thread_id None
_select_unprocessed(msgs, limit) ==
  LET found == {id \in DOMAIN msgs : /\ msgs[id].audience = INBOX_TO_BOT
                                     /\ msgs[id].processed = FALSE}
      RECURSIVE Oldest(_)
      Oldest(ids) ==
        IF ids = {} THEN <<>>
        ELSE LET first == CHOOSE x \in ids :
                            \A y \in ids : msgs[x].created_at <= msgs[y].created_at
             IN <<first>> \o Oldest(ids \ {first})
      all == Oldest(found)
  IN SubSeq(all, 1, Min(Len(all), limit))

\* _loop_id_for_member, lines 61-65
_loop_id_for_member(author_member_id) ==
  LET rows == SelectSeq(PubMembers, LAMBDA m : m.id = author_member_id)
  IN IF rows = <<>> THEN NONE ELSE rows[1].loop_id

\* _bot_member_id_for_loop, lines 67-74
_bot_member_id_for_loop(loop_id, bot_profile_id) ==
  LET rows == SelectSeq(PubMembers,
                        LAMBDA m : m.loop_id = loop_id /\ m.profile_id = bot_profile_id)
  IN IF rows = <<>> THEN NONE ELSE rows[1].id

\* _recipients_for_loop, lines 76-89
_recipients_for_loop(loop_id, exclude_ids) ==
  LET rows == SelectSeq(PubMembers,
                        LAMBDA m : m.loop_id = loop_id /\ m.profile_id \notin exclude_ids)
  IN [i \in DOMAIN rows |-> rows[i].profile_id]

\* Lines 212-259 for one selected row: the reason it is skipped or its recipients.
Resolved(row, x_user_id) ==
  LET none == [skipped_reason |-> NONE, recipients |-> <<>>, bot_member_id |-> NONE]
  IN
  IF row.author_member_id = NONE
  THEN [none EXCEPT !.skipped_reason = "missing author_member_id"]
  ELSE LET loop_id == _loop_id_for_member(row.author_member_id)
       IN IF loop_id = NONE THEN [none EXCEPT !.skipped_reason = "missing loop_id"]
          ELSE LET bot_member_id == _bot_member_id_for_loop(loop_id, x_user_id)
               IN IF bot_member_id = NONE
                  THEN [none EXCEPT !.skipped_reason = "bot not a member of loop"]
                  ELSE [none EXCEPT
                          !.bot_member_id = bot_member_id,
                          !.recipients =
                            _recipients_for_loop(loop_id, {row.created_by, x_user_id})]

\* Lines 244-252: the rows to publish for one source; src records the source.
PublishRows(row, res, now) ==
  [i \in DOMAIN res.recipients |->
     [thread_id |-> row.thread_id, created_at |-> now,
      bot_member_id |-> res.bot_member_id,
      recipient_profile_id |-> res.recipients[i], content_ciphertext |-> FYI,
      src |-> row.id]]

RECURSIVE Flat(_)
Flat(ss) == IF ss = <<>> THEN <<>> ELSE Head(ss) \o Flat(Tail(ss))

\* Lines 196-205: connect, select, return at once when nothing is pending.
PubSelect(r) ==
  /\ pub.pc = "ready" /\ pub.run[r].pc = "idle"
  /\ \E limit \in 1..MaxLimit, dry_run \in BOOLEAN :
       LET rows == _select_unprocessed(pub.messages, limit)
       IN pub' = [pub EXCEPT
                    !.run[r] = [NoPubRun EXCEPT
                      !.pc = IF rows = <<>> THEN "done" ELSE "build",
                      !.limit = limit, !.dry_run = dry_run, !.x_user_id = "Z",
                      !.rows = [i \in DOMAIN rows |-> pub.messages[rows[i]]],
                      !.scanned = Len(rows)]]
  /\ UNCHANGED outside

\* Lines 207-270: the loop over the selected rows.
PubBuild(r) ==
  /\ pub.run[r].pc = "build"
  /\ LET me == pub.run[r]
         res == [i \in DOMAIN me.rows |-> Resolved(me.rows[i], me.x_user_id)]
         good == SelectSeq([i \in DOMAIN me.rows |-> i],
                           LAMBDA i : res[i].skipped_reason = NONE)
     IN pub' = [pub EXCEPT
                  !.run[r].pc = "publish",
                  !.run[r].skipped = Len(me.rows) - Len(good),
                  !.run[r].items =
                    [i \in DOMAIN me.rows |->
                       [human_message_id |-> me.rows[i].id,
                        recipients |-> res[i].recipients,
                        skipped_reason |-> res[i].skipped_reason]],
                  !.run[r].to_publish =
                    IF me.dry_run THEN <<>>
                    ELSE Flat([k \in DOMAIN good |->
                                 PublishRows(me.rows[good[k]], res[good[k]], pub.clock)]),
                  !.run[r].source_ids =
                    IF me.dry_run THEN <<>>
                    ELSE [k \in DOMAIN good |-> me.rows[good[k]].id]]
  /\ UNCHANGED outside

\* UPDATE messages SET processed=TRUE, processed_at=NOW() WHERE id IN (...)
MarkedBy(row, source_ids) == row.id \in Range(source_ids)

\* _insert_and_mark, lines 104-141, in the transaction of line 274.
InsertedAndMarked(msgs, r, bot_profile_id, rows_to_publish, source_ids, now) ==
  LET new == {NewId(r, w.src, w.recipient_profile_id) : w \in Range(rows_to_publish)}
      RowOf(id) == CHOOSE w \in Range(rows_to_publish) :
                     NewId(r, w.src, w.recipient_profile_id) = id
  IN [id \in DOMAIN msgs \cup new |->
        IF id \in new
        THEN [id |-> id, thread_id |-> RowOf(id).thread_id,
              created_at |-> RowOf(id).created_at, created_by |-> bot_profile_id,
              author_member_id |-> RowOf(id).bot_member_id, audience |-> BOT_TO_USER,
              recipient_profile_id |-> RowOf(id).recipient_profile_id,
              content_ciphertext |-> RowOf(id).content_ciphertext,
              processed |-> FALSE, processed_at |-> NULL, src |-> RowOf(id).src]
        ELSE IF MarkedBy(msgs[id], source_ids)
             THEN [msgs[id] EXCEPT !.processed = TRUE, !.processed_at = now]
             ELSE msgs[id]]

ProcessedCount(msgs, source_ids) ==
  Cardinality({id \in DOMAIN msgs : MarkedBy(msgs[id], source_ids)})

\* Lines 272-289: one transaction publishes every row and marks every source of
\* the batch; its counts are the statements' rowcounts.
PubPublish(r) ==
  /\ pub.run[r].pc = "publish"
  /\ LET me == pub.run[r]
     IN IF ~me.dry_run /\ (me.to_publish # <<>> \/ me.source_ids # <<>>)
        THEN pub' = [pub EXCEPT
                       !.messages = InsertedAndMarked(pub.messages, r, me.x_user_id,
                                                      me.to_publish, me.source_ids,
                                                      pub.clock + 1),
                       !.clock = @ + 1,
                       !.run[r].pc = "done",
                       !.run[r].inserted = Len(me.to_publish),
                       !.run[r].processed = ProcessedCount(pub.messages, me.source_ids)]
        ELSE pub' = [pub EXCEPT !.run[r].pc = "done"]
  /\ UNCHANGED outside

\* Lines 274-282 and 293-299: a statement of the transaction fails on the rows
\* of one source; the transaction block rolls back and process answers ok=False.
PubFail(r) ==
  /\ pub.run[r].pc = "publish"
  /\ ~pub.run[r].dry_run
  /\ \E m \in Range(pub.run[r].source_ids) :
       pub' = [pub EXCEPT !.run[r].pc = "done", !.run[r].ok = FALSE,
                          !.run[r].failed = m]
  /\ UNCHANGED outside

InitPublish ==
  /\ InitTables
  /\ loop_members = HumanMembers
  /\ messages = PriorRows
  /\ InitRuns
  /\ llm = NoChat
  /\ rcp = NoResolve
  /\ gen = NoGen
  /\ pub \in PubStates
  /\ locks = NoLocks
  /\ auth = NoAuth
  /\ api = NoApi

NextPublish ==
  \E r \in Runs :
    \/ PubSelect(r)
    \/ PubBuild(r)
    \/ PubPublish(r)
    \/ PubFail(r)

SpecPublish == InitPublish /\ [][NextPublish]_vars

\* ---- resolve_recipients_batched (app/services/recipients.py) --------------------
\* MessageKey
MessageKey(message_id, l, p) ==
  [message_id |-> message_id, author_member_id |-> <<l, p>>, author_profile_id |-> p]

\* Batches of one or two messages, the first by A and the second by B, each
\* author posting through the membership row of some loop.
Batches ==
  {<<MessageKey(1, l, "A")>> : l \in Loops}
  \cup {<<MessageKey(1, l, "A"), MessageKey(2, k, "B")>> : l \in Loops, k \in Loops}

BatchCalls ==
  { [pc |-> "start", members |-> T, messages |-> b, known_bot_profile_ids |-> {"Z"},
     loop_by_member |-> <<>>, by_loop |-> <<>>, recipients_by_loop |-> <<>>,
     out |-> <<>>] :
      T \in MemberTables, b \in Batches }

\* Lines 120-134: SELECT id, loop_id FROM members WHERE id IN (...)
LoopByMember(members, msgs) ==
  LET ids == {msgs[i].author_member_id : i \in DOMAIN msgs}
      found == {id \in ids : \E m \in members : m.id = id}
  IN [id \in found |-> _fetch_loop_id_for_member(members, id)]

\* Lines 137-142: the messages of each loop.
ByLoop(loop_by_member, msgs) ==
  LET known == SelectSeq(msgs, LAMBDA m : m.author_member_id \in DOMAIN loop_by_member)
      loops == {loop_by_member[known[i].author_member_id] : i \in DOMAIN known}
  IN [l \in loops |->
        SelectSeq(known, LAMBDA m : loop_by_member[m.author_member_id] = l)]

\* Lines 145-149: exclude = {m.author_profile_id for m in group} | bot_set
RecipientsByLoop(members, by_loop, bot_set) ==
  [l \in DOMAIN by_loop |->
     _fetch_recipients_for_loop(
       members, l,
       {by_loop[l][i].author_profile_id : i \in DOMAIN by_loop[l]} \cup bot_set)]

\* Lines 152-163: the recipients of each message id.
MappedBack(loop_by_member, recipients_by_loop, msgs) ==
  [id \in {msgs[i].message_id : i \in DOMAIN msgs} |->
     LET m == CHOOSE x \in Range(msgs) : x.message_id = id
     IN IF m.author_member_id \notin DOMAIN loop_by_member THEN <<>>
        ELSE LET base == recipients_by_loop[loop_by_member[m.author_member_id]]
             IN SelectSeq(base, LAMBDA pid : pid # m.author_profile_id)]

\* What a call of resolve_recipients_batched leaves alone.
apart == <<store, queue, llm, ext>>

BatchPrefetch ==
  /\ rcp.pc = "start"
  /\ rcp' = [rcp EXCEPT !.pc = "group",
                        !.loop_by_member = LoopByMember(rcp.members, rcp.messages)]
  /\ UNCHANGED apart

BatchGroup ==
  /\ rcp.pc = "group"
  /\ rcp' = [rcp EXCEPT !.pc = "fetch",
                        !.by_loop = ByLoop(rcp.loop_by_member, rcp.messages)]
  /\ UNCHANGED apart

BatchFetch ==
  /\ rcp.pc = "fetch"
  /\ rcp' = [rcp EXCEPT !.pc = "map",
                        !.recipients_by_loop =
                          RecipientsByLoop(rcp.members, rcp.by_loop,
                                           rcp.known_bot_profile_ids)]
  /\ UNCHANGED apart

BatchMap ==
  /\ rcp.pc = "map"
  /\ rcp' = [rcp EXCEPT !.pc = "returned",
                        !.out = MappedBack(rcp.loop_by_member, rcp.recipients_by_loop,
                                           rcp.messages)]
  /\ UNCHANGED apart

\* resolve_recipients_for_message, lines 91-98, as one function.
resolve_recipients_for_message(members, m, known_bot_profile_ids) ==
  LET loop_id == _fetch_loop_id_for_member(members, m.author_member_id)
  IN IF loop_id = NONE THEN <<>>
     ELSE _fetch_recipients_for_loop(
            members, loop_id, ExcludeSet(m.author_profile_id, known_bot_profile_ids))

InitBatched ==
  /\ InitTables
  /\ loop_members = HumanMembers
  /\ messages = PriorRows
  /\ InitRuns
  /\ llm = NoChat
  /\ rcp \in BatchCalls
  /\ InitExt

NextBatched ==
  \/ BatchPrefetch
  \/ BatchGroup
  \/ BatchFetch
  \/ BatchMap

SpecBatched == InitBatched /\ [][NextBatched]_vars

\* ---- process_queue called again and again ----------------------------------------
\* Stores of MaxMsgs pending messages in T1, oldest first; any of them may have an
\* author whose membership row is gone, which no run can ever resolve.
RepeatStores ==
  { [k \in 1..MaxMsgs |->
       InboundRow(k, "T1", IF k \in gone THEN "mX" ELSE AuthorOf(k), k)] @@ PriorRows :
      gone \in SUBSET (1..MaxMsgs) }

\* The caller's request: publish mode, no thread scope, always the same limit.
SameRequest(r) ==
  {q \in Requests({NONE}) : q.limit = args[r].limit /\ ~q.dry_run}

\* The caller triggers the next run once the response of the last one is in.
Again(r) ==
  /\ pc[r] = "done"
  /\ pc' = [pc EXCEPT ![r] = "idle"]
  /\ humans' = [humans EXCEPT ![r] = <<>>]
  /\ hi' = [hi EXCEPT ![r] = 1]
  /\ loc' = [loc EXCEPT ![r] = NoLoc]
  /\ item' = [item EXCEPT ![r] = NoItem]
  /\ tx' = [tx EXCEPT ![r] = NoTx]
  /\ stats' = [stats EXCEPT ![r] = NoStats]
  /\ items' = [items EXCEPT ![r] = <<>>]
  /\ UNCHANGED <<ext, llm, rcp, store, messages, args>>

InitRepeat ==
  /\ InitTables
  /\ loop_members = HumanMembers
  /\ messages \in RepeatStores
  /\ pc = [r \in Runs |-> "idle"]
  /\ args \in {[r \in Runs |-> [NoArgs EXCEPT !.limit = n, !.x_user_id = "Z"]] :
                 n \in 1..MaxLimit}
  /\ humans = [r \in Runs |-> <<>>]
  /\ hi = [r \in Runs |-> 1]
  /\ loc = [r \in Runs |-> NoLoc]
  /\ item = [r \in Runs |-> NoItem]
  /\ tx = [r \in Runs |-> NoTx]
  /\ stats = [r \in Runs |-> NoStats]
  /\ items = [r \in Runs |-> <<>>]
  /\ llm = NoChat
  /\ rcp = NoResolve
  /\ InitExt

NextRepeat ==
  \/ Fetch("r1", SameRequest("r1"))
  \/ BeginMessage("r1")
  \/ Generate("r1")
  \/ Insert("r1")
  \/ Mark("r1")
  \/ Commit("r1")
  \/ Handler("r1")
  \/ Finish("r1")
  \/ Again("r1")

\* Every run ends and the caller keeps calling.
SpecRepeat == InitRepeat /\ [][NextRepeat]_vars /\ WF_vars(NextRepeat)

\* ---- process_queue of routes/backup/19.10/bot.py ---------------------------------
\* Rows locked by the transactions of the other runs.
LockedByOthers(r) == UNION {locks[q] : q \in Runs \ {r}}

\* SELECT ... WHERE audience = %s AND bot_processed_at IS NULL
\* ORDER BY created_at ASC LIMIT %s FOR UPDATE SKIP LOCKED
SkipLockedResults(msgs, limit, held) ==
  LET P == {id \in DOMAIN msgs : FetchWhere(msgs[id], NONE) /\ id \notin held}
      k == Limited(Cardinality(P), limit)
  IN  { s \in [1..k -> P] :
          /\ \A i, j \in 1..k : i # j => s[i] # s[j]
          /\ \A i, j \in 1..k : i < j => OrderedBefore(msgs[s[i]], msgs[s[j]])
          /\ \A y \in P \ Range(s) : \A i \in 1..k : OrderedBefore(msgs[s[i]], msgs[y]) }

\* _insert_bot_to_user, lines 196-213; src and run as in BotRow.
BotToUserRow(r, h, recipient_id, content) ==
  [id |-> NewId(r, h.id, recipient_id),
   thread_id |-> h.thread_id,
   created_by |-> args[r].x_user_id,
   author_member_id |-> NONE,
   audience |-> BOT_TO_USER,
   recipient_profile_id |-> recipient_id,
   content_ciphertext |-> seal_plaintext(content),
   created_at |-> TxTime(r, tx[r].seq),
   bot_processed_at |-> NULL,
   src |-> h.id, run |-> r]

\* Lines 243-246: the selection locks the rows it returns for its transaction.
LockedFetch(r) ==
  /\ pc[r] = "idle"
  /\ \E req \in Requests({NONE}) :
       \E s \in SkipLockedResults(messages, req.limit, LockedByOthers(r)) :
         /\ args' = [args EXCEPT ![r] = req]
         /\ humans' = [humans EXCEPT ![r] = [i \in 1..Len(s) |-> HumanDict(messages[s[i]])]]
         /\ stats' = [stats EXCEPT ![r] = [NoStats EXCEPT !.dry_run = req.dry_run,
                                                          !.scanned = Len(s)]]
         /\ locks' = [locks EXCEPT ![r] = Range(s)]
  /\ tx' = [tx EXCEPT ![r] = Begun(@)]
  /\ pc' = [pc EXCEPT ![r] = "loop"]
  /\ UNCHANGED <<gen, pub, auth, api, llm, rcp, store, messages, hi, loc, item, items>>

\* Lines 255-307: recipients, text and replies of one message. A failed
\* generation rolls back (lines 289-295, 333-339); a dry run counts the message
\* and goes on without commit or rollback.
LockedReplies(r) ==
  /\ pc[r] = "loop"
  /\ hi[r] <= Len(humans[r])
  /\ LET h == Cur(r)
         recipients == Recipients(MemberIds(threads[h.thread_id]), h.created_by)
     IN \/ /\ tx' = [tx EXCEPT ![r] = Rollback(Begun(@))]
           /\ locks' = [locks EXCEPT ![r] = {}]
           /\ stats' = [stats EXCEPT ![r].skipped = @ + 1]
           /\ hi' = [hi EXCEPT ![r] = @ + 1]
           /\ UNCHANGED <<pc, loc>>
        \/ /\ args[r].dry_run
           /\ tx' = [tx EXCEPT ![r] = Begun(@)]
           /\ stats' = [stats EXCEPT ![r].processed = @ + 1]
           /\ hi' = [hi EXCEPT ![r] = @ + 1]
           /\ UNCHANGED <<pc, loc, locks>>
        \/ /\ ~args[r].dry_run
           /\ tx' = [tx EXCEPT ![r] = Begun(@)]
           /\ loc' = [loc EXCEPT ![r].recipients = recipients]
           /\ pc' = [pc EXCEPT ![r] = "insert"]
           /\ UNCHANGED <<stats, hi, locks>>
  /\ UNCHANGED <<gen, pub, auth, api, llm, rcp, store, messages, args, humans, item, items>>

\* Lines 310-325: the inserts and the update of the source row. The update waits
\* for the row lock while another transaction holds it, and locks the row.
LockedPublish(r) ==
  /\ pc[r] = "insert"
  /\ Cur(r).id \notin LockedByOthers(r)
  /\ tx' = [tx EXCEPT ![r] =
              [Begun(@) EXCEPT
                 !.inserts = {BotToUserRow(r, Cur(r), loc[r].recipients[i], <<"o", "k">>) :
                                i \in DOMAIN loc[r].recipients},
                 !.marks = {Cur(r).id}]]
  /\ locks' = [locks EXCEPT ![r] = @ \cup {Cur(r).id}]
  /\ stats' = [stats EXCEPT ![r].processed = @ + 1,
                            ![r].inserted = @ + Len(loc[r].recipients)]
  /\ pc' = [pc EXCEPT ![r] = "commit"]
  /\ UNCHANGED <<gen, pub, auth, api, llm, rcp, store, messages, args, humans, hi, loc,
                 item, items>>

\* Line 327: conn.commit() ends the transaction, and with it every row lock the
\* transaction holds.
LockedCommit(r) ==
  /\ pc[r] = "commit"
  /\ messages' = Committed(messages, r, tx[r])
  /\ tx' = [tx EXCEPT ![r] = Closed(@)]
  /\ locks' = [locks EXCEPT ![r] = {}]
  /\ hi' = [hi EXCEPT ![r] = @ + 1]
  /\ loc' = [loc EXCEPT ![r] = NoLoc]
  /\ pc' = [pc EXCEPT ![r] = "loop"]
  /\ UNCHANGED <<gen, pub, auth, api, llm, rcp, store, args, humans, item, stats, items>>

\* Line 341: the connection is closed after the loop.
LockedFinish(r) ==
  /\ pc[r] = "loop"
  /\ hi[r] > Len(humans[r])
  /\ pc' = [pc EXCEPT ![r] = "done"]
  /\ tx' = [tx EXCEPT ![r] = Closed(@)]
  /\ locks' = [locks EXCEPT ![r] = {}]
  /\ UNCHANGED <<gen, pub, auth, api, llm, rcp, store, messages, args, humans, hi, loc,
                 item, stats, items>>

InitLocked ==
  /\ InitTables
  /\ loop_members = HumanMembers
  /\ messages = PlainMessages(MaxMsgs)
  /\ InitRuns
  /\ llm = NoChat
  /\ rcp = NoResolve
  /\ InitExt

NextLocked ==
  \E r \in Runs :
    \/ LockedFetch(r)
    \/ LockedReplies(r)
    \/ LockedPublish(r)
    \/ LockedCommit(r)
    \/ LockedFinish(r)

SpecLocked == InitLocked /\ [][NextLocked]_vars

\* ---- the caller check of process_queue (routes/bot.py) ---------------------------
\* An environment string is a sequence of characters; a profile id counts as one
\* character of it.
\* s.split(",")
RECURSIVE Split(_)
Split(s) ==
  IF \A i \in DOMAIN s : s[i] # "," THEN <<s>>
  ELSE LET k == CHOOSE i \in DOMAIN s : s[i] = "," /\ \A j \in 1..(i - 1) : s[j] # ","
       IN <<SubSeq(s, 1, k - 1)>> \o Split(SubSeq(s, k + 1, Len(s)))

\* De-dup while preserving order
RECURSIVE Uniq(_)
Uniq(ids) ==
  IF ids = <<>> THEN <<>>
  ELSE LET init == Uniq(SubSeq(ids, 1, Len(ids) - 1))
           last == ids[Len(ids)]
       IN IF last \in Range(init) THEN init ELSE Append(init, last)

\* _get_bot_ids_from_env, lines 20-36
_get_bot_ids_from_env(env_multi, env_legacy) ==
  LET multi == IF Strip(env_multi) # <<>>
               THEN SelectSeq([i \in DOMAIN Split(env_multi) |-> Strip(Split(env_multi)[i])],
                              LAMBDA x : x # <<>>)
               ELSE <<>>
      legacy == IF Strip(env_legacy) # <<>> THEN <<Strip(env_legacy)>> ELSE <<>>
  IN Uniq(multi \o legacy)

\* The check that lets every caller with a header through.
_require_bot_caller_AnyCaller(x_user_id, bot_ids) ==
  IF x_user_id \in {NONE, ""} THEN 401 ELSE 200

\* _require_bot_caller, lines 39-47: the status it raises, or 200 when it returns.
_require_bot_caller(x_user_id, bot_ids) ==
  IF x_user_id \in {NONE, ""} THEN 401
  ELSE IF bot_ids = <<>> THEN 500
  ELSE IF <<x_user_id>> \notin Range(bot_ids) THEN 403
  ELSE 200

\* Values of the X-User-Id header: absent, empty, a human's id, a bot's id.
Headers == {NONE, "", "A", "Y", "Z"}

\* Settings of BOT_PROFILE_IDS and BOT_PROFILE_ID.
Environments ==
  [BOT_PROFILE_IDS : {<<>>, <<" ">>, <<"Z">>, <<"Z", ",", " ", "Y">>, <<"Y", ",", ",", "Y">>},
   BOT_PROFILE_ID : {<<>>, <<"Z">>}]

CallerStates ==
  { [pc |-> "ready", env |-> e, status |-> [r \in Runs |-> 0]] : e \in Environments }

ConfiguredBots == _get_bot_ids_from_env(auth.env.BOT_PROFILE_IDS, auth.env.BOT_PROFILE_ID)

CallerRequests(x_user_id) ==
  [thread_id : {NONE}, limit : 1..MaxLimit, dry_run : BOOLEAN, x_user_id : {x_user_id}]

\* Line 241 when _require_bot_caller raises: the HTTPException leaves
\* process_queue before get_conn is called.
Refuse(r) ==
  /\ pc[r] = "idle"
  /\ \E x \in Headers :
       LET status == _require_bot_caller(x, ConfiguredBots)
       IN /\ status # 200
          /\ auth' = [auth EXCEPT !.status[r] = status]
          /\ args' = [args EXCEPT ![r].x_user_id = x]
  /\ loc' = [loc EXCEPT ![r].exc = "HTTPException"]
  /\ pc' = [pc EXCEPT ![r] = "raised"]
  /\ UNCHANGED <<gen, pub, locks, api, llm, rcp, store, messages, humans, hi, item, tx,
                 stats, items>>

\* Lines 241-247 when _require_bot_caller returns: connect and select.
Admit(r) ==
  \E x \in Headers :
    /\ _require_bot_caller(x, ConfiguredBots) = 200
    /\ Fetch(r, CallerRequests(x))

InitCaller ==
  /\ InitTables
  /\ loop_members = HumanMembers
  /\ messages = PlainMessages(MaxShared)
  /\ InitRuns
  /\ llm = NoChat
  /\ rcp = NoResolve
  /\ gen = NoGen
  /\ pub = NoPub
  /\ locks = NoLocks
  /\ auth \in CallerStates
  /\ api = NoApi

NextCaller ==
  \/ Refuse("r1")
  \/ Admit("r1")
  \/ BeginMessage("r1")
  \/ Generate("r1")
  \/ Insert("r1")
  \/ Mark("r1")
  \/ Commit("r1")
  \/ Handler("r1")
  \/ Finish("r1")

SpecCaller == InitCaller /\ [][NextCaller]_vars

\* ---- send_message and get_messages (routes/messages.py) --------------------------
\* Requests to send_message the model follows.
MaxSent == 2

\* Thread T1 belongs to loop L1 and thread T2 to loop L2; A is a member of both
\* loops, B and C of L1 only.
MessageThreads == [t \in ThreadIds |-> IF t = "T1" THEN "L1" ELSE "L2"]
MessageMembers == Append(HumanMembers, [id |-> "nA", loop_id |-> "L2", profile_id |-> "A"])

\* What uuid.UUID() accepts.
IsUUID(x) == x # "bad"

\* _strip_cipher, lines 45-53
_strip_cipher(cipher_text) ==
  IF cipher_text = <<>> THEN <<>>
  ELSE IF Head(cipher_text) = "cipher:" THEN Strip(Tail(cipher_text))
  ELSE Strip(cipher_text)

\* _thread_exists_and_loop_id, lines 56-63: the loop id, or NONE where it raises 404
_thread_exists_and_loop_id(thread_id) ==
  IF thread_id \in DOMAIN threads THEN threads[thread_id] ELSE NONE

\* The lookup that takes the sender's membership of any loop.
_author_member_id_AnyLoop(loop_id, profile_id) ==
  LET rows == SelectSeq(loop_members, LAMBDA m : m.profile_id = profile_id)
  IN IF rows = <<>> THEN NONE ELSE rows[1].id

\* _author_member_id, lines 66-82: the member id, or NONE where it raises 404
_author_member_id(loop_id, profile_id) ==
  LET rows == SelectSeq(loop_members,
                        LAMBDA m : m.loop_id = loop_id /\ m.profile_id = profile_id)
  IN IF rows = <<>> THEN NONE ELSE rows[1].id

\* _row_to_message_out, lines 85-95
MessageOut(row) ==
  [id |-> row.id, thread_id |-> row.thread_id, created_at |-> row.created_at,
   created_by |-> row.created_by, author_member_id |-> row.author_member_id,
   audience |-> row.audience, recipient_profile_id |-> row.recipient_profile_id,
   content |-> _strip_cipher(row.content_ciphertext)]

Largest(S) == CHOOSE x \in S : \A y \in S : y <= x

\* The row of the insert at lines 125-143: a fresh id, now() as created_at, and
\* the defaults of the columns the statement does not name.
SentRow(msgs, payload, author_member_id) ==
  [id |-> Largest(DOMAIN msgs) + 1,
   thread_id |-> payload.thread_id,
   created_by |-> payload.user_id,
   author_member_id |-> author_member_id,
   audience |-> INBOX_TO_BOT,
   recipient_profile_id |-> NONE,
   content_ciphertext |-> seal_plaintext(payload.content),
   created_at |-> Largest({msgs[id].created_at : id \in DOMAIN msgs}) + 1,
   bot_processed_at |-> NULL,
   src |-> 0, run |-> NONE]

SendMessagePayloads ==
  [thread_id : ThreadIds \cup {"T9", "bad"}, user_id : {"A", "B", "Z", "bad"},
   content : {<<"h", "i">>, <<" ", "y", "o">>}]

\* The viewer's own posts of the thread.
ViewerWhere_AnyRecipient(row, thread_id, user_id) ==
  \/ row.thread_id = thread_id /\ row.audience = INBOX_TO_BOT /\ row.created_by = user_id
  \/ row.thread_id = thread_id /\ row.audience = BOT_TO_USER

\* Lines 207-225: the two selections of the UNION ALL.
ViewerWhere(row, thread_id, user_id) ==
  \/ row.thread_id = thread_id /\ row.audience = INBOX_TO_BOT /\ row.created_by = user_id
  \/ /\ row.thread_id = thread_id /\ row.audience = BOT_TO_USER
     /\ row.recipient_profile_id = user_id

\* Lines 203-239: every result of the query, rows of equal created_at in any order.
ViewerResults(msgs, thread_id, user_id, limit) ==
  LET P == {id \in DOMAIN msgs : ViewerWhere(msgs[id], thread_id, user_id)}
      k == Min(Cardinality(P), limit)
  IN  { s \in [1..k -> P] :
          /\ \A i, j \in 1..k : i # j => s[i] # s[j]
          /\ \A i, j \in 1..k : i < j => msgs[s[i]].created_at <= msgs[s[j]].created_at
          /\ \A y \in P \ Range(s) :
               \A i \in 1..k : msgs[s[i]].created_at <= msgs[y].created_at }

GetMessagesQueries ==
  [thread_id : ThreadIds \cup {"T9", "bad"}, user_id : {"A", "B", "bad"},
   limit : 1..MaxLimit]

ApiStates == {[pc |-> "ready", sent |-> 0, op |-> NONE, request |-> NONE,
               status |-> 0, body |-> NONE]}

\* What a request to routes/messages.py leaves alone.
aside == <<pc, args, humans, hi, loc, item, tx, stats, items,
           llm, rcp, gen, pub, locks, auth>>

\* send_message, lines 110-169, and its transaction.
SendMessage ==
  /\ api.sent < MaxSent
  /\ \E payload \in SendMessagePayloads :
       LET loop_id == _thread_exists_and_loop_id(payload.thread_id)
           author_member_id == _author_member_id(loop_id, payload.user_id)
           asked == [api EXCEPT !.sent = @ + 1, !.op = "send_message",
                                !.request = payload]
       IN IF ~IsUUID(payload.thread_id) \/ ~IsUUID(payload.user_id)
          THEN /\ api' = [asked EXCEPT !.status = 400, !.body = NONE]
               /\ UNCHANGED messages
          ELSE IF loop_id = NONE \/ author_member_id = NONE
          THEN /\ api' = [asked EXCEPT !.status = 404, !.body = NONE]
               /\ UNCHANGED messages
          ELSE LET row == SentRow(messages, payload, author_member_id)
               IN /\ messages' = (row.id :> row) @@ messages
                  /\ api' = [asked EXCEPT !.status = 200, !.body = MessageOut(row)]
  /\ UNCHANGED <<store, aside>>

\* get_messages, lines 191-253
GetMessages ==
  /\ \E q \in GetMessagesQueries :
       LET asked == [api EXCEPT !.op = "get_messages", !.request = q]
       IN IF ~IsUUID(q.thread_id) \/ ~IsUUID(q.user_id)
          THEN api' = [asked EXCEPT !.status = 400, !.body = NONE]
          ELSE IF _thread_exists_and_loop_id(q.thread_id) = NONE
          THEN api' = [asked EXCEPT !.status = 404, !.body = NONE]
          ELSE \E s \in ViewerResults(messages, q.thread_id, q.user_id, q.limit) :
                 api' = [asked EXCEPT
                           !.status = 200,
                           !.body = [i \in DOMAIN s |-> MessageOut(messages[s[i]])]]
  /\ UNCHANGED <<store, messages, aside>>

InitMessages ==
  /\ threads = MessageThreads
  /\ loop_members = MessageMembers
  /\ loop_agents = {[id |-> "aZ", loop_id |-> "L1", agent_profile_id |-> "Z"]}
  /\ messages = PriorRows
  /\ InitRuns
  /\ llm = NoChat
  /\ rcp = NoResolve
  /\ gen = NoGen
  /\ pub = NoPub
  /\ locks = NoLocks
  /\ auth = NoAuth
  /\ api \in ApiStates

NextMessages ==
  \/ SendMessage
  \/ GetMessages

SpecMessages == InitMessages /\ [][NextMessages]_vars

\* ---- properties ---------------------------------------------------------------
BotRowsOf(msgs, m) ==
  {id \in DOMAIN msgs : msgs[id].audience = BOT_TO_USER /\ msgs[id].src = m}

InProgress(r) == pc[r] \notin {"idle", "done", "raised", "cancelled"}

\* The messages of its batch a run has selected and not yet finished.
Unfinished(r) ==
  IF InProgress(r) THEN {humans[r][i].id : i \in hi[r]..Len(humans[r])} ELSE {}

Selected(r) == {humans[r][i].id : i \in 1..Len(humans[r])}

\* The step is the selection of run r (line 247).
Selects(r) == pc[r] = "idle" /\ pc'[r] = "loop"

\* The step is a step of run r.
Moved(r) == <<pc[r], hi[r], loc[r], tx[r]>>' # <<pc[r], hi[r], loc[r], tx[r]>>

\* C1: across concurrent publish-mode runs, for each inbound message and each
\* recipient at most one bot_to_user row is ever committed.
C1_ExactlyOnce ==
  \A a, b \in DOMAIN messages :
    ( /\ messages[a].audience = BOT_TO_USER
      /\ messages[b].audience = BOT_TO_USER
      /\ messages[a].src = messages[b].src
      /\ messages[a].recipient_profile_id = messages[b].recipient_profile_id )
    => a = b

\* C2: no inbound message is held by two runs at once: a message one run has
\* selected and not finished is in no other run's unfinished batch.
C2_ExclusiveClaim ==
  \A r, q \in Runs : r # q => Unfinished(r) \cap Unfinished(q) = {}

\* C3: once an insert, the mark or the commit of a source message has failed in
\* a publish-mode run, no bot_to_user row produced for that message is committed
\* and its bot_processed_at is null; this holds while the handler is pending and
\* after it has recorded the item.
FailedDb(r) ==
  {items[r][i].human_message_id : i \in {j \in 1..Len(items[r]) :
                                          items[r][j].skipped_reason = "error: db"}}
  \cup (IF pc[r] = "except" /\ loc[r].exc = "db" THEN {Cur(r).id} ELSE {})

C3_FailureAtomic ==
  \A r \in Runs : ~args[r].dry_run =>
    \A m \in FailedDb(r) :
      BotRowsOf(messages, m) = {} /\ messages[m].bot_processed_at = NULL

\* C3 witness: the mark of a message failed after every recipient's row had
\* been inserted, and the handler has recorded the skip.
C3_Witness ==
  \E r \in Runs :
    /\ ~args[r].dry_run
    /\ pc[r] = "except" /\ loc[r].exc = "db"
    /\ loc[r].new_ids # <<>> /\ Len(loc[r].new_ids) = Len(loc[r].recipients)
    /\ stats[r].processed = 0
    /\ tx[r].marks = {}

\* C4: no step of a dry run changes the messages table.
C4_DryRunPure ==
  [][\A r \in Runs : (Moved(r) /\ args'[r].dry_run) => messages' = messages]_vars

\* C4 witness: a dry run has gone through a batch of two messages with
\* recipients and returned.
C4_Witness ==
  \E r \in Runs :
    /\ args[r].dry_run /\ pc[r] = "done"
    /\ Len(items[r]) = 2
    /\ \A i \in 1..2 : items[r][i].skipped_reason = NONE /\ items[r][i].recipients # <<>>

\* C5: the recipients resolved for a source message, and the recipients of the
\* rows inserted for it, include neither the author's profile id nor the calling
\* bot's profile id.
Excluded(r, m) == {messages[m].created_by, args[r].x_user_id}

C5_Exclusion ==
  \A r \in Runs :
    /\ \A i \in 1..Len(items[r]) :
         Range(items[r][i].recipients) \cap Excluded(r, items[r][i].human_message_id) = {}
    /\ \A id \in DOMAIN messages :
         (messages[id].audience = BOT_TO_USER /\ messages[id].run = r)
         => messages[id].recipient_profile_id \notin Excluded(r, messages[id].src)

\* C6: when generation raises for one recipient of a source message, the rows
\* already inserted for the recipients whose generation succeeded are committed
\* by the time the message is done.
C6_PartialFailureIsolated ==
  [][\A r \in Runs :
       (pc[r] = "except" /\ pc'[r] = "loop" /\ loc[r].exc = "llm")
       => Range(loc[r].new_ids) \subseteq DOMAIN messages']_vars

\* C7: a run that starts after a publish-mode run has returned scans no message
\* that run reported as processed.
Reported(q) ==
  {items[q][i].human_message_id : i \in {j \in 1..Len(items[q]) :
                                          items[q][j].skipped_reason = NONE}}

C7_SecondRunScansNone ==
  [][\A r, q \in Runs :
       (Selects(r) /\ pc[q] = "done" /\ ~args[q].dry_run)
       => Selected(r)' \cap Reported(q) = {}]_vars

\* C7 witness: a publish-mode run has returned with a processed message and the
\* other run has selected an empty batch.
C7_Witness ==
  \E r, q \in Runs :
    /\ pc[q] = "done" /\ ~args[q].dry_run /\ Reported(q) # {}
    /\ pc[r] = "loop" /\ hi[r] = 1 /\ humans[r] = <<>>

\* C8: a non-null bot_processed_at is never cleared and never changed.
C8_ProcessedAtSetOnce ==
  [][\A id \in DOMAIN messages :
       messages[id].bot_processed_at # NULL
       => messages'[id].bot_processed_at = messages[id].bot_processed_at]_vars

\* C8 witness: a publish-mode run has executed the mark on a message another
\* run had already marked and committed; its update matched no row.
C8_Witness ==
  \E r \in Runs :
    /\ pc[r] = "commit" /\ ~args[r].dry_run
    /\ messages[Cur(r).id].bot_processed_at # NULL
    /\ tx[r].marks = {}

\* C9: every selected message is an inbox_to_bot row whose bot_processed_at is
\* null in the table the selection reads, is in the requested thread when a
\* scope is given, and the batch has at most `limit` messages, none twice.
C9_SelectionSound ==
  [][\A r \in Runs : Selects(r) =>
       /\ Len(humans'[r]) <= args'[r].limit
       /\ Cardinality(Selected(r)') = Len(humans'[r])
       /\ \A id \in Selected(r)' :
            /\ id \in DOMAIN messages
            /\ messages[id].audience = INBOX_TO_BOT
            /\ messages[id].bot_processed_at = NULL
            /\ (args'[r].thread_id # NONE => messages[id].thread_id = args'[r].thread_id)]_vars

\* C9 witness: a scoped selection with limit 1 took one message of its thread
\* and left a second pending message of that thread, from a table that also
\* holds a processed inbound row and a bot_to_user row.
C9_Witness ==
  \E r \in Runs :
    /\ pc[r] = "loop" /\ hi[r] = 1 /\ items[r] = <<>>
    /\ args[r].thread_id = "T1" /\ args[r].limit = 1 /\ Len(humans[r]) = 1
    /\ \E id \in DOMAIN messages \ Selected(r) :
         FetchWhere(messages[id], "T1")
    /\ \E id \in DOMAIN messages : messages[id].audience = BOT_TO_USER
    /\ \E id \in DOMAIN messages :
         messages[id].audience = INBOX_TO_BOT /\ messages[id].bot_processed_at # NULL

\* The pending messages in the scope of run r's request, in the table it reads.
InScope(r) == {id \in DOMAIN messages : FetchWhere(messages[id], args'[r].thread_id)}

\* y is selected only with x selected before it.
NeverBehind(r, x, y) ==
  \A j \in 1..Len(humans'[r]) :
    humans'[r][j].id = y => \E i \in 1..(j - 1) : humans'[r][i].id = x

\* C10 as stated: of two pending messages in scope, the one earlier in
\* (created_at, id) is never left out of a batch that holds the other and
\* comes before it.
C10_TieBrokenById ==
  [][\A r \in Runs : Selects(r) =>
       \A x, y \in InScope(r) :
         ( \/ messages[x].created_at < messages[y].created_at
           \/ (messages[x].created_at = messages[y].created_at /\ x < y) )
         => NeverBehind(r, x, y)]_vars

\* C10 amended: of two pending messages in scope with different created_at,
\* the one created earlier is never left out of a batch that holds the other and
\* comes before it; messages with equal created_at come in any order.
C10_OldestFirst ==
  [][\A r \in Runs : Selects(r) =>
       \A x, y \in InScope(r) :
         messages[x].created_at < messages[y].created_at => NeverBehind(r, x, y)]_vars

\* C10 witness: an unscoped selection with limit 1 over two pending messages
\* with different created_at took the older one.
C10_Witness ==
  \E r \in Runs :
    /\ pc[r] = "loop" /\ hi[r] = 1 /\ items[r] = <<>>
    /\ args[r].thread_id = NONE /\ args[r].limit = 1
    /\ \E y \in DOMAIN messages \ Selected(r) :
         /\ FetchWhere(messages[y], NONE)
         /\ humans[r][1].created_at < messages[y].created_at

\* C11: every error met while one source message is handled becomes that
\* message's skip reason and the run goes on to return its response: a run that
\* has selected a batch never ends by raising.
C11_ErrorsBecomeSkips ==
  \A r \in Runs : pc[r] = "raised" => humans[r] = <<>>

\* line 330: the one response process_queue builds.
BotProcessResponse(st, its) ==
  [ok |-> TRUE, reason |-> NONE, stats |-> st, items |-> its]

\* C12: a run whose connection to the store could not be opened returns an
\* envelope with ok = FALSE and a reason instead of raising, and every other
\* envelope returned has ok = TRUE.
C12_ErrorEnvelope ==
  \A r \in Runs :
    LET response == BotProcessResponse(stats[r], items[r])
    IN  /\ loc[r].exc \in ConnectErrors
           => (pc[r] = "done" /\ ~response.ok /\ response.reason # NONE)
        /\ (pc[r] = "done" /\ loc[r].exc \notin ConnectErrors) => response.ok

\* The bot profile has a row for the loop, in loop_agents or in loop_members.
BotIsMember(loop_id, bot_profile_id) ==
  \/ _resolve_bot_member_id(loop_id, bot_profile_id) # NONE
  \/ \E i \in DOMAIN loop_members :
        loop_members[i].loop_id = loop_id /\ loop_members[i].profile_id = bot_profile_id

\* C13: a source message whose thread and author resolve, in a loop the calling
\* bot is not a member of, is recorded as skipped with reason "bot not a member
\* of group" and no bot_to_user row exists for it.
C13_BotNotMemberSkipped ==
  \A r \in Runs : \A i \in 1..Len(items[r]) :
    LET it == items[r][i]
    IN  ( /\ it.thread_id \in DOMAIN threads
          /\ AuthorRows(messages[it.human_message_id].author_member_id) # <<>>
          /\ ~BotIsMember(threads[it.thread_id], args[r].x_user_id) )
        => /\ it.skipped_reason = "bot not a member of group"
           /\ BotRowsOf(messages, it.human_message_id) = {}

\* The author_member_id of message m has no row in loop_members.
AuthorUnresolved(m) == AuthorRows(messages[m].author_member_id) = <<>>

\* C14 as stated: the item of a source message whose author's membership row
\* cannot be resolved carries the reason "missing author member".
C14_MissingAuthorMember ==
  \A r \in Runs : \A i \in 1..Len(items[r]) :
    AuthorUnresolved(items[r][i].human_message_id)
    => items[r][i].skipped_reason = "missing author member"

\* C14 amended: the step that handles a source message whose author's
\* membership row cannot be resolved records its item with the reason "author
\* member not found" and no recipients or rows, adds exactly one to
\* stats.skipped, leaves the other counters and the messages table as they
\* were, and leaves nothing pending in the transaction; the message stays
\* unprocessed.
C14_AuthorMemberNotFound ==
  [][\A r \in Runs :
       ( /\ pc[r] = "loop" /\ hi[r] <= Len(humans[r]) /\ Moved(r)
         /\ Cur(r).thread_id \in DOMAIN threads
         /\ AuthorUnresolved(Cur(r).id) )
       => /\ items'[r] = Append(items[r],
                                [NoItem EXCEPT !.human_message_id = Cur(r).id,
                                               !.thread_id = Cur(r).thread_id,
                                               !.skipped_reason = "author member not found"])
          /\ stats'[r] = [stats[r] EXCEPT !.skipped = @ + 1]
          /\ messages' = messages
          /\ tx'[r].inserts = {} /\ tx'[r].marks = {}
          /\ messages'[Cur(r).id].bot_processed_at = NULL
          /\ BotRowsOf(messages', Cur(r).id) = {}]_vars

\* C14 witness: a publish-mode run has returned after relaying its first
\* message and skipping its second, whose author's membership row is gone.
C14_Witness ==
  \E r \in Runs :
    /\ ~args[r].dry_run /\ pc[r] = "done" /\ Len(items[r]) = 2
    /\ items[r][1].skipped_reason = NONE /\ items[r][1].bot_rows # <<>>
    /\ AuthorUnresolved(items[r][2].human_message_id)
    /\ items[r][2].skipped_reason = "author member not found"
    /\ stats[r].skipped = 1 /\ stats[r].processed = 1
    /\ messages[items[r][2].human_message_id].bot_processed_at = NULL

\* The items of run r whose message resolved to an empty recipient set.
NoRecipientItems(r) ==
  {i \in 1..Len(items[r]) :
     /\ items[r][i].thread_id \in DOMAIN threads
     /\ ~AuthorUnresolved(items[r][i].human_message_id)
     /\ items[r][i].recipients = <<>>}

\* C15: every item of a source message whose resolved recipient set is empty
\* carries a skip reason, and these messages are counted in stats.skipped.
C15_NoRecipientsSkipped ==
  \A r \in Runs :
    /\ \A i \in NoRecipientItems(r) : items[r][i].skipped_reason # NONE
    /\ Cardinality(NoRecipientItems(r)) <= stats[r].skipped

\* C16: in a publish-mode run, every recorded item of a source message with
\* recipients for which no bot_to_user row was produced carries a skip reason.
C16_NoSilentDrop ==
  \A r \in Runs : ~args[r].dry_run =>
    \A i \in 1..Len(items[r]) :
      ( /\ items[r][i].recipients # <<>>
        /\ BotRowsOf(messages, items[r][i].human_message_id) = {} )
      => items[r][i].skipped_reason # NONE

\* The profiles with a row in loop_members for the loop.
MembersOf(loop_id) == Range(MemberIds(loop_id))

\* C17: a publish-mode run that has returned from a batch of one message,
\* whose author and the bot are members of the loop and whose recipients all got
\* a row, has committed exactly one bot_to_user row per member other than the
\* author and the bot, has marked the source processed, and reports scanned = 1,
\* processed = 1, skipped = 0 and inserted = that number of members.
C17_RelayToOthers ==
  \A r \in Runs :
    ( /\ ~args[r].dry_run /\ pc[r] = "done"
      /\ stats[r].scanned = 1 /\ Len(items[r]) = 1
      /\ items[r][1].skipped_reason = NONE
      /\ items[r][1].recipients # <<>>
      /\ Len(items[r][1].bot_rows) = Len(items[r][1].recipients)
      /\ BotIsMember(threads[items[r][1].thread_id], args[r].x_user_id) )
    => LET m == items[r][1].human_message_id
           others == MembersOf(threads[items[r][1].thread_id])
                       \ {messages[m].created_by, args[r].x_user_id}
           rows == BotRowsOf(messages, m)
       IN  /\ {messages[id].recipient_profile_id : id \in rows} = others
           /\ Cardinality(rows) = Cardinality(others)
           /\ messages[m].bot_processed_at # NULL
           /\ stats[r] = [scanned |-> 1, processed |-> 1, skipped |-> 0,
                          inserted |-> Cardinality(others), dry_run |-> FALSE]

\* C18: the response of a dry run reports inserted = 0 and, for every item
\* that was not skipped, holds one preview per resolved recipient.
C18_DryRunPreviews ==
  \A r \in Runs : (args[r].dry_run /\ pc[r] = "done") =>
    LET response == BotProcessResponse(stats[r], items[r])
    IN  /\ response.stats.inserted = 0
        /\ \A i \in 1..Len(response.items) :
             response.items[i].skipped_reason = NONE
             => /\ "previews" \in DOMAIN response.items[i]
                /\ Len(response.items[i].previews) = Len(response.items[i].recipients)

\* Provider call o failed with an error _is_transient_error accepts.
FailedTransient(o) == ~o.ok /\ _is_transient_error(o.exc)

\* The call of _chat_with_retry has returned or raised.
Ended == llm.pc \in {"returned", "raised"}

\* The provider calls made so far number at most LLM_RETRIES + 1, every call
\* but the last failed with a transient error, and a call that ended by raising
\* after transient failures only has used every attempt and raises the error
\* of the last one.
BoundedAttempts ==
  /\ Len(llm.calls) <= llm.LLM_RETRIES + 1
  /\ \A i \in 1..(Len(llm.calls) - 1) : FailedTransient(llm.calls[i])
  /\ ( /\ llm.pc = "raised" /\ llm.calls # <<>>
       /\ \A i \in DOMAIN llm.calls : FailedTransient(llm.calls[i]) )
     => /\ Len(llm.calls) = llm.LLM_RETRIES + 1
        /\ llm.raised = llm.calls[Len(llm.calls)].exc

\* C19: one call of _chat_with_retry makes at most LLM_RETRIES + 1 provider
\* calls, makes a further one only after a transient failure and never after a
\* success, raises the last error when every attempt failed transiently, and
\* always ends.
C19_BoundedRetry == []BoundedAttempts /\ <>Ended

\* C19 witness: with the largest LLM_RETRIES every attempt failed transiently,
\* the first and the last with different errors, and the last error was raised.
C19_Witness ==
  /\ llm.pc = "raised" /\ llm.LLM_RETRIES = MaxRetries
  /\ Len(llm.calls) = MaxRetries + 1
  /\ \A i \in DOMAIN llm.calls : FailedTransient(llm.calls[i])
  /\ llm.calls[1].exc # llm.calls[Len(llm.calls)].exc
  /\ llm.raised = llm.calls[Len(llm.calls)].exc

\* C20: a provider call that failed with a non-transient error is the last
\* call made, no sleep follows it, and the call of _chat_with_retry raises that
\* error, whatever the number of retries left.
C20_NonTransientRaisesAtOnce ==
  \A i \in DOMAIN llm.calls :
    (~llm.calls[i].ok /\ ~_is_transient_error(llm.calls[i].exc))
    => /\ i = Len(llm.calls)
       /\ Len(llm.sleeps) = i - 1
       /\ llm.pc \in {"except", "raised"}
       /\ llm.pc = "raised" => llm.raised = llm.calls[i].exc

\* C20 witness: after one transient failure and its sleep, the second attempt
\* failed with a non-transient error and the call raised it with a retry left.
C20_Witness ==
  /\ llm.pc = "raised" /\ llm.LLM_RETRIES = MaxRetries
  /\ Len(llm.calls) = 2 /\ llm.attempt < llm.LLM_RETRIES
  /\ FailedTransient(llm.calls[1])
  /\ ~llm.calls[2].ok /\ ~_is_transient_error(llm.calls[2].exc)
  /\ Len(llm.sleeps) = 1
  /\ llm.raised = llm.calls[2].exc

\* C21: the text generate_reply returns has at most LLM_MAX_CHARS characters.
C21_ReplyWithinMaxChars ==
  llm.pc = "replied" => Len(llm.reply) <= llm.LLM_MAX_CHARS

\* C21 witness: a model output longer than LLM_MAX_CHARS was cut at a space,
\* and the reply came out shorter than LLM_MAX_CHARS.
C21_Witness ==
  /\ llm.pc = "replied"
  /\ Len(llm.result) > llm.LLM_MAX_CHARS
  /\ IsSpace(llm.result[llm.LLM_MAX_CHARS])
  /\ llm.reply # <<>> /\ Len(llm.reply) < llm.LLM_MAX_CHARS

\* C22: the text generate_reply returns is never empty.
C22_ReplyNeverEmpty ==
  llm.pc = "replied" => llm.reply # <<>>

\* C23: a run about to call the provider for a recipient has no transaction
\* open on its connection, and so no uncommitted insert pending.
C23_NoCallInTransaction ==
  \A r \in Runs : pc[r] = "gen" => (~tx[r].open /\ tx[r].inserts = {})

\* The messages of its batch a cancelled run had not finished.
Left(r) == {humans[r][i].id : i \in hi[r]..Len(humans[r])}

C25_RowsOnlyIfProcessed ==
  \A id \in DOMAIN messages :
    messages[id].audience = BOT_TO_USER
    => messages[messages[id].src].bot_processed_at # NULL

\* C25 witness: two concurrent publish-mode runs have both committed rows for
\* the same source message, the second after its mark matched no row.
C25_Witness ==
  \E r, q \in Runs : \E a, b \in DOMAIN messages :
    /\ r # q
    /\ messages[a].audience = BOT_TO_USER /\ messages[a].run = r
    /\ messages[b].audience = BOT_TO_USER /\ messages[b].run = q
    /\ messages[a].src = messages[b].src
    /\ messages[messages[a].src].bot_processed_at = TxTime(r, 1)

\* Row w was inserted by run r for a source message: it has a recipient, the
\* caller's profile id as created_by, and the thread of its source message.
WellFormedRelay(w, r) ==
  /\ w.audience = BOT_TO_USER
  /\ w.recipient_profile_id # NONE /\ w.recipient_profile_id \in Profiles
  /\ w.created_by = args[r].x_user_id
  /\ w.thread_id = messages[w.src].thread_id

\* C26: every bot_to_user row a run has inserted, pending in its transaction
\* or committed, has exactly one non-null recipient, the calling bot's profile
\* id as created_by, and the thread_id of the inbound message it was produced
\* for.
C26_RelayRowShape ==
  \A r \in Runs :
    /\ \A w \in tx[r].inserts : WellFormedRelay(w, r)
    /\ \A id \in DOMAIN messages :
         messages[id].run = r => WellFormedRelay(messages[id], r)

\* C26 witness: a run has committed the rows of a message of thread T1 and
\* holds a pending row for a message of thread T2.
C26_Witness ==
  \E r \in Runs :
    /\ \E id \in DOMAIN messages :
         messages[id].run = r /\ messages[id].thread_id = "T1"
    /\ \E w \in tx[r].inserts : w.thread_id = "T2"

\* The rows of the members table in the loop of the author's member row.
AuthorLoopRows ==
  {m \in rcp.members :
     \E a \in rcp.members : a.id = rcp.author_member_id /\ a.loop_id = m.loop_id}

\* C27: when the author's member id has a loop, the list
\* resolve_recipients_for_message returns holds exactly the profile ids of that
\* loop's members other than the author's profile id and the known bots, each
\* once.
C27_RecipientsExact ==
  (rcp.pc = "returned" /\ AuthorLoopRows # {})
  => /\ Range(rcp.result) =
          ({m.profile_id : m \in AuthorLoopRows} \ {rcp.author_profile_id})
            \ rcp.known_bot_profile_ids
     /\ Cardinality(Range(rcp.result)) = Len(rcp.result)

\* C27 witness: the author's loop holds the author, a known bot and another
\* member, a different loop holds a profile that is in neither set, and the
\* call returned the other member only.
C27_Witness ==
  /\ rcp.pc = "returned" /\ Len(rcp.result) = 1
  /\ \E m \in AuthorLoopRows : m.profile_id = rcp.author_profile_id
  /\ \E m \in AuthorLoopRows : m.profile_id \in rcp.known_bot_profile_ids
  /\ \E m \in rcp.members \ AuthorLoopRows :
       /\ m.profile_id \notin rcp.known_bot_profile_ids \cup {rcp.author_profile_id}
       /\ m.profile_id \notin Range(rcp.result)

\* C28: when the author's member id has no row, and so no loop,
\* resolve_recipients_for_message ends with an UnresolvedGroup error.
C28_UnresolvedGroupRaised ==
  (rcp.pc = "returned" /\ AuthorLoopRows = {}) => rcp.raised = "UnresolvedGroup"

\* C29: the response of a run holds one item per selected message, in
\* selection order, stats.scanned is the number of messages selected, and
\* stats.scanned = stats.processed + stats.skipped.
C29_CountersAddUp ==
  \A r \in Runs : pc[r] = "done" =>
    LET response == BotProcessResponse(stats[r], items[r])
    IN  /\ Len(response.items) = Len(humans[r])
        /\ \A i \in 1..Len(humans[r]) :
             response.items[i].human_message_id = humans[r][i].id
        /\ response.stats.scanned = Len(humans[r])
        /\ response.stats.scanned = response.stats.processed + response.stats.skipped

\* C30: in the response of a run, stats.inserted is the number of bot_to_user
\* rows the run has committed, and every id in an item's bot_rows is a
\* committed row.
C30_InsertedIsCommitted ==
  \A r \in Runs : pc[r] = "done" =>
    LET response == BotProcessResponse(stats[r], items[r])
    IN  /\ response.stats.inserted =
             Cardinality({id \in DOMAIN messages : messages[id].run = r})
        /\ \A i \in 1..Len(response.items) :
             Range(response.items[i].bot_rows) \subseteq DOMAIN messages

RECURSIVE Pow2(_)
Pow2(n) == IF n = 0 THEN 1 ELSE 2 * Pow2(n - 1)

\* C31: in _chat_with_retry the sleep before the k-th retry lasts
\* min(2^(k-1), LLM_RETRY_MAX_S) seconds, there are at most LLM_RETRIES sleeps,
\* one after each failed attempt that is retried, and no sleep follows the
\* failed attempt that makes the call raise.
C31_BackoffSleeps ==
  /\ \A k \in DOMAIN llm.sleeps :
       /\ llm.sleeps[k] = Min(Pow2(k - 1), llm.LLM_RETRY_MAX_S)
       /\ llm.sleeps[k] <= llm.LLM_RETRY_MAX_S
       /\ k <= llm.LLM_RETRIES
       /\ FailedTransient(llm.calls[k])
  /\ llm.pc \in {"loop", "call"} => Len(llm.sleeps) = Len(llm.calls)
  /\ (llm.pc = "raised" /\ llm.calls # <<>>) => Len(llm.sleeps) = Len(llm.calls) - 1
  /\ llm.pc \in {"returned", "replied"} => Len(llm.sleeps) = Len(llm.calls) - 1

\* C31 witness: with the largest LLM_RETRIES and the smallest ceiling every
\* attempt failed transiently; the second sleep was cut to the ceiling and the
\* last failure was raised without a sleep.
C31_Witness ==
  /\ llm.pc = "raised" /\ llm.LLM_RETRIES = MaxRetries
  /\ Len(llm.calls) = MaxRetries + 1 /\ Len(llm.sleeps) = MaxRetries
  /\ llm.sleeps[1] = 1
  /\ llm.sleeps[MaxRetries] < Pow2(MaxRetries - 1)
  /\ llm.sleeps[MaxRetries] = llm.LLM_RETRY_MAX_S

\* The plaintexts of the sender's messages in the thread, oldest first.
SenderTexts ==
  LET mine == {x \in gen.rows : x.thread_id = "T1" /\ x.author_member_id = "mA"}
      old == Reversed(NewestFirst(mine))
  IN [i \in 1..Len(old) |-> Strip(Unprefixed(old[i].content_ciphertext))]

\* C32: the prompt built for a source message lists the sender's most recent
\* messages in the thread, at most ContextLimit of them, oldest first.
C32_PromptHasRecentMessages ==
  gen.pc = "prompted" =>
    LET n == Len(SenderTexts)
        k == Min(n, ContextLimit)
    IN /\ Len(gen.user_payload) = k
       /\ \A i \in 1..k : gen.user_payload[i].text = SenderTexts[n - k + i]

\* C33: a publish of process (app/bot.py) never changes the processed_at of a
\* source that was already marked, and the processed count of the publishing run
\* is the number of sources its publish turned from unprocessed to processed.
C33_MarkOnlyUnprocessed ==
  [][\A r \in Runs :
       (pub.run[r].pc = "publish" /\ pub'.run[r].pc = "done") =>
         /\ \A m \in DOMAIN pub.messages :
              pub.messages[m].processed =>
                pub'.messages[m].processed_at = pub.messages[m].processed_at
         /\ pub'.run[r].processed =
              Cardinality({m \in DOMAIN pub.messages :
                             /\ ~pub.messages[m].processed
                             /\ pub'.messages[m].processed})]_vars

\* C34: when the publish of a run fails on one source message, the other
\* sources of the batch are published and marked all the same.
C34_PublishFailureIsPerMessage ==
  \A r \in Runs :
    (pub.run[r].pc = "done" /\ pub.run[r].failed # 0) =>
      \A m \in Range(pub.run[r].source_ids) \ {pub.run[r].failed} :
        /\ pub.messages[m].processed
        /\ \E w \in DOMAIN pub.messages :
             pub.messages[w].audience = BOT_TO_USER /\ pub.messages[w].src = m

\* C35: resolve_recipients_batched gives every message of the batch the
\* recipient set that resolve_recipients_for_message gives that message alone.
C35_BatchedEqualsSingle ==
  rcp.pc = "returned" =>
    \A i \in DOMAIN rcp.messages :
      Range(rcp.out[rcp.messages[i].message_id]) =
        Range(resolve_recipients_for_message(rcp.members, rcp.messages[i],
                                             rcp.known_bot_profile_ids))

\* The run is in the handler of an exception that generate_reply or a statement
\* of the transaction raised.
Failing == pc["r1"] = "except"

\* C36: with runs repeated at a fixed limit and no new arrivals, every pending
\* message whose thread, author and recipients resolve is eventually marked
\* processed, provided generations and statements do not fail for ever.
C36_EventuallyPublished ==
  \A m \in 1..MaxMsgs :
    (messages[m].author_member_id # "mX")
      ~> (Failing \/ messages[m].bot_processed_at # NULL)

\* The messages of the run's batch that it has not yet committed or rolled back.
Pending(r) ==
  IF pc[r] \in {"loop", "insert", "commit"}
  THEN {humans[r][i].id : i \in hi[r]..Len(humans[r])}
  ELSE {}

\* C37: in the FOR UPDATE SKIP LOCKED variant a run holds the row lock of
\* every message of its batch that it has not yet committed or rolled back, and
\* no other run has such a message in its own unfinished batch.
C37_LockHeldUntilFinished ==
  \A r \in Runs :
    /\ Pending(r) \subseteq locks[r]
    /\ \A q \in Runs \ {r} : Pending(r) \cap Pending(q) = {}

\* The non-empty entries of the two settings.
Configured ==
  {x \in Headers \ {NONE, ""} :
     \/ \E i \in DOMAIN auth.env.BOT_PROFILE_IDS : auth.env.BOT_PROFILE_IDS[i] = x
     \/ \E i \in DOMAIN auth.env.BOT_PROFILE_ID : auth.env.BOT_PROFILE_ID[i] = x}

\* C38: a run of process_queue that has opened a transaction, selected a batch
\* or changed the table was called with an X-User-Id that is a configured bot
\* id; every other call has raised 401 (no header), 500 (no bot id configured)
\* or 403 (not a configured bot) without a connection, a read or a write.
C38_OnlyBotCallerTouchesStore ==
  LET r == "r1"
      x == args[r].x_user_id
  IN /\ (pc[r] # "idle" /\ auth.status[r] = 0) => x \in Configured
     /\ (tx[r] # NoTx \/ humans[r] # <<>> \/ messages # PlainMessages(MaxShared))
          => (auth.status[r] = 0 /\ x \in Configured)
     /\ auth.status[r] # 0 =>
          /\ pc[r] = "raised" /\ x \notin Configured
          /\ auth.status[r] = IF x \in {NONE, ""} THEN 401
                              ELSE IF Configured = {} THEN 500 ELSE 403

\* C38 witness: with a bot id configured, a call carrying a human's id was
\* refused with 403 and nothing was read.
C38_Witness ==
  /\ pc["r1"] = "raised" /\ auth.status["r1"] = 403
  /\ args["r1"].x_user_id = "A" /\ "Z" \in Configured
  /\ tx["r1"] = NoTx /\ humans["r1"] = <<>>

\* The request is answered by one new row of the sender in the thread.
OneRowSent(payload, member) ==
  /\ Cardinality(DOMAIN messages') = Cardinality(DOMAIN messages) + 1
  /\ \A id \in DOMAIN messages : messages'[id] = messages[id]
  /\ \E id \in DOMAIN messages' \ DOMAIN messages :
       LET row == messages'[id]
       IN /\ row.thread_id = payload.thread_id /\ row.created_by = payload.user_id
          /\ row.audience = INBOX_TO_BOT
          /\ row.recipient_profile_id = NONE /\ row.bot_processed_at = NULL
          /\ row.author_member_id = member.id
          /\ row.content_ciphertext = <<"cipher:">> \o Strip(payload.content)
          /\ api'.status = 200 /\ api'.body.id = id

\* The membership rows of the sender in the loop of the thread.
SenderMembership(payload) ==
  {loop_members[i] : i \in {j \in DOMAIN loop_members :
      /\ payload.thread_id \in DOMAIN threads
      /\ loop_members[j].loop_id = threads[payload.thread_id]
      /\ loop_members[j].profile_id = payload.user_id}}

\* C39 as stated: send_message inserts exactly one inbox_to_bot row, with null
\* recipient and null bot_processed_at, authored by the sender's membership of
\* the thread's loop, when the thread exists and the sender is a member of its
\* loop; otherwise it fails with 404 and inserts nothing.
C39_SendInsertsOneRowOr404 ==
  [][api'.sent = api.sent + 1 =>
       LET payload == api'.request
           mine == SenderMembership(payload)
       IN IF mine # {}
          THEN \E member \in mine : OneRowSent(payload, member)
          ELSE messages' = messages /\ api'.status = 404]_vars

\* C39 amended: as stated, except that a thread_id or user_id that is not a
\* UUID fails with 400.
C39_SendInsertsOneRowOr4xx ==
  [][api'.sent = api.sent + 1 =>
       LET payload == api'.request
           mine == SenderMembership(payload)
       IN IF mine # {}
          THEN \E member \in mine : OneRowSent(payload, member)
          ELSE /\ messages' = messages
               /\ api'.status = IF IsUUID(payload.thread_id) /\ IsUUID(payload.user_id)
                                THEN 404 ELSE 400]_vars

\* C39 witness: A has posted to T2 through the membership of loop L2, and B's
\* post to T2, of whose loop B is no member, was then refused with 404.
C39_Witness ==
  /\ api.op = "send_message" /\ api.status = 404 /\ api.sent = 2
  /\ api.request.thread_id = "T2" /\ api.request.user_id = "B"
  /\ \E id \in DOMAIN messages :
       /\ messages[id].thread_id = "T2" /\ messages[id].created_by = "A"
       /\ messages[id].author_member_id = "nA" /\ messages[id].audience = INBOX_TO_BOT
  /\ Cardinality(DOMAIN messages) = Cardinality(DOMAIN PriorRows) + 1

\* The rows of the table that are the viewer's own posts or relays addressed to
\* the viewer.
OwnRows(msgs, user_id) ==
  LET own == {id \in DOMAIN msgs :
                \/ msgs[id].audience = INBOX_TO_BOT /\ msgs[id].created_by = user_id
                \/ msgs[id].audience = BOT_TO_USER /\ msgs[id].recipient_profile_id = user_id}
  IN [id \in own |-> msgs[id]]

\* C40: every item get_messages returns is, in the requested thread, an
\* inbox_to_bot row created by the viewer or a bot_to_user row addressed to the
\* viewer, and the response is one the same request gets from the store without
\* the rows of other users.
C40_ViewerSeesOwnRowsOnly ==
  (api.op = "get_messages" /\ api.status = 200) =>
    LET q == api.request
    IN /\ \A i \in DOMAIN api.body :
            /\ api.body[i].thread_id = q.thread_id
            /\ \/ api.body[i].audience = INBOX_TO_BOT /\ api.body[i].created_by = q.user_id
               \/ /\ api.body[i].audience = BOT_TO_USER
                  /\ api.body[i].recipient_profile_id = q.user_id
       /\ \E s \in ViewerResults(OwnRows(messages, q.user_id), q.thread_id, q.user_id,
                                 q.limit) :
            api.body = [i \in DOMAIN s |-> MessageOut(messages[s[i]])]

\* C40 witness: thread T1 holds a post of B, a relay to A and a post of A; A's
\* view of T1 has the relay and A's post, and B's post is not in it.
C40_Witness ==
  /\ api.op = "get_messages" /\ api.status = 200
  /\ api.request.thread_id = "T1" /\ api.request.user_id = "A"
  /\ Len(api.body) = 2
  /\ api.body[1].audience = BOT_TO_USER /\ api.body[2].audience = INBOX_TO_BOT
  /\ \E id \in DOMAIN messages :
       /\ messages[id].thread_id = "T1" /\ messages[id].created_by = "B"
       /\ messages[id].audience = INBOX_TO_BOT

====
